---------------------------- MODULE Spec2Model ----------------------------
(***************************************************************************)
(* A model of the simulation core of "endless dream": the tree recycler of *)
(* world.js (two builds of it are in the repository: src/world.js and the  *)
(* one in src/unnamed/part_000), the encounter state machine of entity.js  *)
(* (second half of src/unnamed/part_000) and the focus loop of main.js.    *)
(*                                                                         *)
(* Units.  Lengths are integers in decimetres (0.1 world unit), times in   *)
(* milliseconds, focus in millionths, threat in thousandths, a value of    *)
(* Math.random() in thousandths (0..999), angles in 1e-5 rad.              *)
(***************************************************************************)
EXTENDS Integers, Sequences, FiniteSets, TLC

VARIABLES
    variant,       \* which build of world.js is loaded: "world_js" | "part_000"
    camera,        \* camera.position, planar part: [x, z]
    gameStarted,   \* main.js gameStarted
    focus,         \* main.js focus
    trees,         \* world.trees: sequence of anchors [x, z]
    entities,      \* the object returned by createEntitySystem, as updateEntities
                   \* leaves it: active, timer, cooldown, lastWhisper, and of its
                   \* group: visible, pos
    eret,          \* what the last updateEntities call returned
    wobs,          \* observation of the last world operation (history only)
    fobs,          \* observation of the last focus operation (history only)
    eobs,          \* observation of the last updateEntities call (history only)
    internalTime,  \* world.internalTime, in ms
    anim,          \* per tree: spawn time, base scale and what the last updateWorld
                   \* call set of its scale, rise, yaw and drift
    stages,        \* the calls the last animate() made, in order, with their arguments
                   \* (history only)
    raised,        \* did the last animate() end in an exception (history only)
    cfg,           \* the world object's shape: tree pool, grounds, tileSize, gridSize
    grounds,       \* world.grounds: sequence of tile positions [x, z]
    whisper,       \* whisperTimer and the whisper element: timer, text, opacity
    nan,           \* the quantities that hold NaN
    session,       \* main.js's other module variables, camera.rotation and the
                   \* yaw and pitch of controls.js
    storage,       \* localStorage: the slots and the last-slot key
    loadRet,       \* what the last loadFromSlot call returned
    savedAt,       \* per slot: the game's state when saveToSlot last wrote the slot
                   \* in a session followed here (history only)
    audio          \* the audio system: ctx.state, started, the once-only pointerdown
                   \* listener, and how often ctx.resume() was requested

vars == <<variant, camera, gameStarted, focus, trees, entities, eret, wobs, fobs, eobs,
          internalTime, anim, stages, raised, cfg, grounds, whisper, nan, session,
          storage, loadRet, savedAt, audio>>

\* the variables the actions of the tree placement, the presence and the focus
\* loop leave alone
frameVars == <<stages, raised, cfg, grounds, whisper, nan, session, storage, loadRet,
               savedAt, audio>>

restVars == <<internalTime, anim, frameVars>>

---------------------------------------------------------------------------
(* Arithmetic helpers *)

Sq(a) == a * a

Dist2(ax, az, bx, bz) == Sq(ax - bx) + Sq(az - bz)

\* JavaScript's float product rounded toward zero to the model's lattice.
TruncDiv(a, b) == IF a >= 0 THEN a \div b ELSE -((-a) \div b)

Min(a, b) == IF a <= b THEN a ELSE b

Max(a, b) == IF a >= b THEN a ELSE b

---------------------------------------------------------------------------
(* Bounds of the model *)

\* trees in the pool (treeCount is 180 in src/world.js, 260 in part_000)
NumTrees == 2

\* directions sampled for src/world.js's uniform angle (first entries of DirTable)
NumAngles == 1

\* frames the player is followed walking away from a point of CamSet
MaxWalk == 2

\* how long (ms) a dormant presence is followed: while dormant its timer runs
\* down from zero without bound
MaxIdle == 100

Variants == {"world_js", "part_000"}

\* sampled values of Math.random() for the radius draw, in thousandths
USamples == {0, 999}

\* Camera positions a saved state can hold (a save is taken wherever the player
\* has walked to, and localStorage outlives the session).  The points are
\* chosen so that candidates sampled around one of them collide with anchors
\* placed around another (the spacing check can fail on every attempt).
CamSet ==
    { [x |-> 0,    z |-> 0],
      [x |-> -264, z |-> -107],
      [x |-> -300, z |-> 0] }

---------------------------------------------------------------------------
(* world.js: randomizeTreePosition *)

minRadius == 60

maxRadius(v) == IF v = "world_js" THEN 360 ELSE 400

\* squared minimum spacing: 3.5^2 (src/world.js), 2.8^2 (part_000), in dm^2
minSpacingSq(v) == IF v = "world_js" THEN 1225 ELSE 784

maxAttempts(v) == IF v = "world_js" THEN 20 ELSE 7

maxDist == 420

\* Unit vectors with rational coordinates, times 5, with their angle.
DirTable ==
    << [c |-> 5,  s |-> 0,  a |-> 0],
       [c |-> 4,  s |-> 3,  a |-> 64350],
       [c |-> 3,  s |-> 4,  a |-> 92730],
       [c |-> 0,  s |-> 5,  a |-> 157080],
       [c |-> -3, s |-> 4,  a |-> 221430],
       [c |-> -4, s |-> 3,  a |-> 249809],
       [c |-> -5, s |-> 0,  a |-> 314159],
       [c |-> -4, s |-> -3, a |-> 378509],
       [c |-> -3, s |-> -4, a |-> 406889],
       [c |-> 0,  s |-> -5, a |-> 471239],
       [c |-> 3,  s |-> -4, a |-> 535589],
       [c |-> 4,  s |-> -3, a |-> 563969] >>

\* part_000: angleBase = index * goldenAngle, reduced mod 2*pi; index in hundredths
AngleBase(indexCenti) == ((indexCenti * 239996) \div 100) % 628319

\* part_000: jitter = (Math.random() - 0.5) * 0.6, so |angle - angleBase| <= 0.3
InJitter(a, base) ==
    LET d == (a - base) % 628319 IN d <= 30000 \/ d >= 628319 - 30000

\* The directions a call can sample.
Angles(v, indexCenti) ==
    IF v = "world_js"
    THEN {DirTable[k] : k \in 1..NumAngles}
    ELSE {DirTable[k] : k \in {j \in 1..Len(DirTable) :
                                   InJitter(DirTable[j].a, AngleBase(indexCenti))}}

\* r = minRadius + (maxRadius - minRadius) * (0.4 + 0.6 * rand)         src/world.js
\* r = minRadius + (maxRadius - minRadius) * (0.35 + 0.65 * rand^0.8)   part_000
\* (u stands for rand, resp. rand^0.8, which ranges over [0,1) as rand does)
RadiusOvershoot(v, u) ==
    LET lo == IF v = "world_js" THEN 400 ELSE 350
        k  == IF v = "world_js" THEN 600 ELSE 650
    IN  maxRadius(v) + ((maxRadius(v) - minRadius) * (lo + (k * u) \div 1000)) \div 1000

Radius(v, u) ==
    LET lo == IF v = "world_js" THEN 400 ELSE 350
        k  == IF v = "world_js" THEN 600 ELSE 650
    IN  minRadius + ((maxRadius(v) - minRadius) * (lo + (k * u) \div 1000)) \div 1000

\* x = cx + cos(angle) * r, z = cz + sin(angle) * r
Candidate(cx, cz, dir, r) ==
    [x |-> cx + TruncDiv(dir.c * r, 5), z |-> cz + TruncDiv(dir.s * r, 5)]

Candidates(v, cx, cz, indexCenti) ==
    {Candidate(cx, cz, d, Radius(v, u)) : d \in Angles(v, indexCenti), u \in USamples}

\* the spacing check of one candidate against the other trees' anchors
SpacingOk(v, c, others) ==
    \A o \in others : ~(Dist2(o.x, o.z, c.x, c.z) < minSpacingSq(v))

\* The state of the sampling loop: the loop's variables, and for the record the
\* last candidate sampled and the first sampled candidate that passed the check.
RtpStart(cx, cz) ==
    [attempts |-> 0, done |-> FALSE, x |-> cx, z |-> cz,
     last |-> [x |-> cx, z |-> cz], anyOk |-> FALSE, firstOk |-> [x |-> cx, z |-> cz]]

\* loop condition: while (!validPosition && attempts < maxAttempts)   src/world.js
\*                 for (attempt < 7) ... if (ok) break                  part_000
RtpCont(v, s) == ~s.done /\ s.attempts < maxAttempts(v)

\* what a failed attempt leaves in the position variables: src/world.js assigns
\* x and z before the check, part_000 assigns chosenX/chosenZ only on success
RtpOnFail(v, s, c) ==
    IF v = "world_js" THEN [x |-> c.x, z |-> c.z] ELSE [x |-> s.x, z |-> s.z]

\* one iteration of the loop with candidate c
RtpIter(v, s, c, others) ==
    LET ok  == SpacingOk(v, c, others)
        pos == IF ok THEN c ELSE RtpOnFail(v, s, c)
    IN  [attempts |-> s.attempts + 1,
         done     |-> ok,
         x        |-> pos.x,
         z        |-> pos.z,
         last     |-> c,
         anyOk    |-> s.anyOk \/ ok,
         firstOk  |-> IF ~s.anyOk /\ ok THEN c ELSE s.firstOk]

\* What a call leaves behind: the position it assigns, and for the record
\* whether it sampled no more than the attempt bound, whether some sample passed
\* the spacing check, and whether the position assigned is the first sample that
\* passed, resp. the last sample drawn.
RtpOutcome(v, s) ==
    [x |-> s.x, z |-> s.z,
     bounded   |-> s.attempts <= maxAttempts(v),
     anyOk     |-> s.anyOk,
     isFirstOk |-> (s.anyOk /\ s.x = s.firstOk.x /\ s.z = s.firstOk.z),
     isLast    |-> (s.attempts > 0 /\ s.x = s.last.x /\ s.z = s.last.z)]

\* The loop under every sequence of draws: S holds the loop states still
\* running, R the outcomes of the runs that have left the loop.
RECURSIVE RtpRun(_, _, _, _, _)
RtpRun(v, S, R, cands, others) ==
    IF S = {} THEN R
    ELSE LET T == {RtpIter(v, s, c, others) : s \in S, c \in cands}
         IN  RtpRun(v, {t \in T : RtpCont(v, t)},
                    R \cup {RtpOutcome(v, t) : t \in {u \in T : ~RtpCont(v, u)}},
                    cands, others)

\* every outcome of randomizeTreePosition(tree, cx, cz, index, others)
randomizeTreePosition(v, cx, cz, indexCenti, others) ==
    LET s0 == RtpStart(cx, cz)
    IN  IF RtpCont(v, s0)
        THEN RtpRun(v, {s0}, {}, Candidates(v, cx, cz, indexCenti), others)
        ELSE {RtpOutcome(v, s0)}

---------------------------------------------------------------------------
(* world.js: createWorld and updateWorld (the recycling loop) *)

\* what is recorded of one tree in one operation
NoInfo == [re |-> FALSE, far |-> FALSE, bounded |-> TRUE, anyOk |-> FALSE,
           isFirstOk |-> FALSE, isLast |-> FALSE]

RtpInfo(o, wasFar) ==
    [re |-> TRUE, far |-> wasFar, bounded |-> o.bounded, anyOk |-> o.anyOk,
     isFirstOk |-> o.isFirstOk, isLast |-> o.isLast]

Anchor(o) == [x |-> o.x, z |-> o.z]

\* createWorld's loop: tree i is placed around the camera with index i, the
\* trees placed before it being the spacing reference
RECURSIVE CreateTrees(_, _, _, _)
CreateTrees(v, cx, cz, W) ==
    IF \A w \in W : Len(w.trees) = NumTrees THEN W
    ELSE CreateTrees(v, cx, cz,
            UNION { LET i == Len(w.trees)
                    IN  { [trees |-> Append(w.trees, Anchor(o)),
                           info  |-> Append(w.info, RtpInfo(o, FALSE))] :
                            o \in randomizeTreePosition(v, cx, cz, i * 100,
                                      {w.trees[j] : j \in 1..Len(w.trees)}) }
                  : w \in W })

createWorld(v) == CreateTrees(v, 0, 0, {[trees |-> <<>>, info |-> <<>>]})

\* the recycling test of updateWorld
TooFarUnsquared(t, cx, cz) == Dist2(t.x, t.z, cx, cz) > maxDist * 10

TooFarAlongX(t, cx, cz) == Sq(t.x - cx) > maxDist * maxDist

TooFar(t, cx, cz) == Dist2(t.x, t.z, cx, cz) > maxDist * maxDist

\* updateWorld's first loop, from tree i on: a tree beyond maxDist is given a
\* new anchor by randomizeTreePosition(t, cx, cz, i * 13.37, trees)
RECURSIVE RecycleFrom(_, _, _, _, _)
RecycleFrom(v, cx, cz, i, W) ==
    IF i > NumTrees THEN W
    ELSE RecycleFrom(v, cx, cz, i + 1,
            UNION { IF TooFar(w.trees[i], cx, cz)
                    THEN { [trees |-> [w.trees EXCEPT ![i] = Anchor(o)],
                            info  |-> [w.info EXCEPT ![i] = RtpInfo(o, TRUE)]] :
                             o \in randomizeTreePosition(v, cx, cz, (i - 1) * 1337,
                                       {w.trees[j] : j \in (1..NumTrees) \ {i}}) }
                    ELSE { w }
                  : w \in W })

updateWorld(v, ts, cx, cz) ==
    RecycleFrom(v, cx, cz, 1, {[trees |-> ts, info |-> [j \in 1..NumTrees |-> NoInfo]]})

---------------------------------------------------------------------------
(* entity.js (src/unnamed/part_000, second half) *)

\* camera.position.y, the eye height set by resetGameState
eyeY == 16

\* the dt clamp of animate(): Math.min(clock.getDelta(), 0.05)
maxDt == 50

\* values of clock.getDelta() sampled, in ms
ClockDeltas == {0, 50, 100}

\* values of Math.random() sampled for each draw of updateEntities, in thousandths
RandTrial == {0, 100, 999}

RandTimer == {0, 999}

RandCooldown == {0, 999}

RandRadius == {0, 999}

RandSide == {0, 999}

RandY == {999}

RandWhisper == {0, 999}

\* values of focus handed to updateEntities, in millionths
FocusSamples == {0, 500000, 1000000}

\* camera positions handed to updateEntities: the origin, a point a presence
\* raised from the origin stands next to, and a point far from both
EntityCams ==
    { [x |-> 0,     z |-> 0],
      [x |-> 40,    z |-> 30],
      [x |-> -2000, z |-> 0] }

whisperLines ==
    << "he left you here",
       "wake up if you can",
       "the trees remember you",
       "he likes it when you run",
       "this is the third night",
       "you have never left" >>

\* lines[Math.floor(Math.random() * lines.length)]
pickWhisper(r) == whisperLines[((r * Len(whisperLines)) \div 1000) + 1]

\* createEntitySystem: the local hide() runs once, then the object is returned
createEntitySystem ==
    [active |-> FALSE, timer |-> 0, cooldown |-> 0, lastWhisper |-> "",
     visible |-> FALSE, pos |-> [x |-> 0, y |-> 0, z |-> 0]]

\* a sequence of draws that stands for "no draw made"
NoDraws ==
    [trial |-> 999, timer |-> 0, cooldown |-> 0, radius |-> 0, side |-> 0,
     angle |-> 3, y |-> 0, whisper |-> 0]

\* the draws a trigger consumes after the trial draw tr
TriggerDraws(tr) ==
    { [trial |-> tr, timer |-> t, cooldown |-> c, radius |-> r, side |-> s,
       angle |-> a, y |-> y, whisper |-> w] :
        t \in RandTimer, c \in RandCooldown, r \in RandRadius, s \in RandSide,
        a \in {k \in 1..Len(DirTable) : DirTable[k].a >= 90000 /\ DirTable[k].a < 130000},
        y \in RandY, w \in RandWhisper }

\* chance = 0.02 + (1 - focus) * 0.12, in 1e-5
chance(f) == 2000 + ((1000000 - f) * 12) \div 1000

\* Math.random() < chance * dt * 60
TrialOk(r, f, dt) == r * 100000 < chance(f) * dt * 60

\* state.timer = 3 + Math.random() * 3
ActiveTimeMutant(r) == 3 * r

ActiveTimeLong(r) == 3000 + 6 * r

ActiveTime(r) == 3000 + 3 * r

\* state.cooldown = 10 + Math.random() * 15
NextCooldownShort(r) == 4000 + 15 * r

NextCooldown(r) == 10000 + 15 * r

\* group.position.set(...) with camera.rotation.y = 0: radius = 5 + rand * 10,
\* side = rand < 0.5 ? -1 : 1, yaw = side * (0.9 + rand * 0.4),
\* x = cx + sin(yaw) * radius, y = cy + (rand * 0.5 - 0.2), z = cz + cos(yaw) * radius
Place(cam, d) ==
    LET radius == 50 + (d.radius * 100) \div 1000
        side   == IF d.side < 500 THEN -1 ELSE 1
        dir    == DirTable[d.angle]
    IN  [x |-> cam.x + side * TruncDiv(dir.s * radius, 5),
         y |-> eyeY + ((d.y * 5) \div 1000 - 2),
         z |-> cam.z + TruncDiv(dir.c * radius, 5)]

\* group.position.distanceTo(camera.position), squared
EntityDist2(pos, cam) == Sq(pos.x - cam.x) + Sq(pos.y - eyeY) + Sq(pos.z - cam.z)

RECURSIVE SqrtUp(_, _, _)
SqrtUp(n, lo, hi) ==
    IF lo >= hi THEN lo
    ELSE LET mid == (lo + hi) \div 2
         IN  IF mid * mid >= n THEN SqrtUp(n, lo, mid) ELSE SqrtUp(n, mid + 1, hi)

\* the least k with k * k >= n
CeilSqrt(n) == SqrtUp(n, 0, 46340)

\* THREE.MathUtils.clamp(1 - dist / 16, 0, 1), in thousandths, rounded down;
\* d2 is the squared distance in dm^2
threatLevelUnclamped(d2) == 1000 - (CeilSqrt(100 * d2) * 5 + 7) \div 8

threatLevelMutant(d2) == Max(0, Min(1000, (CeilSqrt(100 * d2) * 5) \div 8))

threatLevel(d2) == Max(0, Min(1000, 1000 - (CeilSqrt(100 * d2) * 5 + 7) \div 8))

\* dist < 1.2
CaughtNever(d2) == FALSE

Caught(d2) == d2 < 144

hideEntityKeepsVisible(s) == [s EXCEPT !.active = FALSE, !.timer = 0]

hideEntityRearms(s) ==
    [s EXCEPT !.visible = FALSE, !.active = FALSE, !.timer = 0, !.cooldown = @ + 1000]

hideEntity(s) == [s EXCEPT !.visible = FALSE, !.active = FALSE, !.timer = 0]

\* does this call reach the trial: !state.active && state.cooldown <= 0, read
\* after the decrement
EligibleIgnoresCooldown(s, dt) == ~s.active

Eligible(s, dt) == ~s.active /\ s.cooldown - dt <= 0

\* updateEntities(state, camera, dt, focus) under the draws d: the state it
\* leaves, what it returns, and a record of what happened in the call
updateEntities(s, cam, dt, f, d) ==
    LET s1   == [s EXCEPT !.cooldown = @ - dt, !.timer = @ - dt]
        fire == Eligible(s, dt) /\ TrialOk(d.trial, f, dt)
        s2   == IF fire
                THEN [s1 EXCEPT !.active = TRUE,
                                !.timer = ActiveTime(d.timer),
                                !.cooldown = NextCooldown(d.cooldown),
                                !.pos = Place(cam, d),
                                !.visible = TRUE,
                                !.lastWhisper = pickWhisper(d.whisper)]
                ELSE s1
        d2   == EntityDist2(s2.pos, cam)
        s3   == IF s2.active /\ (s2.timer <= 0 \/ Caught(d2)) THEN hideEntity(s2) ELSE s2
    IN  [state |-> s3,
         ret   |-> [threatLevel |-> IF s2.active THEN threatLevel(d2) ELSE 0,
                    whisper     |-> IF fire THEN s2.lastWhisper ELSE ""],
         obs   |-> [op |-> "updateEntities", dt |-> dt,
                    wasActive |-> s.active, prevCooldown |-> s.cooldown,
                    cooldownDue |-> (s1.cooldown <= 0),
                    trialOk |-> (Eligible(s, dt) /\ TrialOk(d.trial, f, dt)),
                    activeAtCheck |-> s2.active, timerAtCheck |-> s2.timer,
                    dist2 |-> d2,
                    draws |-> IF ~Eligible(s, dt) THEN 0 ELSE IF fire THEN 8 ELSE 1]]

NoEntityObs ==
    [op |-> "createEntitySystem", dt |-> 0, wasActive |-> FALSE, prevCooldown |-> 0,
     cooldownDue |-> FALSE, trialOk |-> FALSE, activeAtCheck |-> FALSE,
     timerAtCheck |-> 0, dist2 |-> 0, draws |-> 0]

NoReturn == [threatLevel |-> 0, whisper |-> ""]

---------------------------------------------------------------------------
(* world.js: the spawn animation of updateWorld (second loop over the trees) *)

\* Scales, easing values and offsets are integers in thousandths; the record
\* kept of a tree's animation is
\*   spawnTime  userData.spawnTime (ms)
\*   scaleBase  userData.scaleBase (part_000; 1 in src/world.js, which has none)
\*   spin       userData.spinSpeed (part_000), userData.spawnRotation (src/world.js)
\*   scale      scale set by the last call
\*   rise       riseOffset of the last call
\*   dyaw       what the last call added to rotation.y
\*   yaw        rotation.y minus the orientation randomizeTreePosition last
\*              assigned (tree.rotation.y = angle + sway)
\*   offx, offz position minus anchor after the last call

\* growDuration, in ms
growDuration(v) == IF v = "world_js" THEN 10500 ELSE 3000

\* values of Math.random() sampled for the per-tree draws, in thousandths
RandScale == {500}

RandSpin == {500}

\* THREE.MathUtils.lerp(a, b, t)
Lerp(a, b, t) == a + TruncDiv((b - a) * t, 1000)

\* THREE.MathUtils.clamp(x, lo, hi)
Clamp(x, lo, hi) == Max(lo, Min(hi, x))

\* Math.sin(pi * x / 1000) by Bhaskara's rational approximation (error < 0.002)
SinPi(x) ==
    LET m == x % 2000
        h == IF m <= 1000 THEN m ELSE m - 1000
        p == h * (1000 - h)
        b == (16 * p) \div ((5000000 - 4 * p) \div 1000)
    IN  IF m <= 1000 THEN b ELSE -b

\* Math.pow(x, 0.4) for x in [0, 1], x in thousandths: the fifth root of x^2,
\* taken on a lattice of fiftieths
Pow04(x) ==
    LET x50 == x \div 20
        k   == CHOOSE k \in 0..50 :
                   /\ k * k * k * k * k <= x50 * x50 * 125000
                   /\ (k + 1) * (k + 1) * (k + 1) * (k + 1) * (k + 1) > x50 * x50 * 125000
    IN  k * 20

\* (x - 1)^3 and (x - 1)^2 for x in thousandths
CubeBelow(x) == -(((1000 - x) * (1000 - x) * (1000 - x)) \div 1000000)

SquareBelow(x) == ((1000 - x) * (1000 - x)) \div 1000

\* u = age / growDuration
Progress(v, age) == (age * 1000) \div growDuration(v)

\* the easing curve of each build at progress u
eased(v, u) ==
    IF v = "world_js"
    THEN IF u < 500
         THEN (Pow04(2 * u) * 150) \div 1000
         ELSE LET t2      == 2 * (u - 500)
                  stutter == TruncDiv(TruncDiv(SinPi(8 * t2) * 80, 1000) * (1000 - t2), 1000)
              IN  150 + TruncDiv((1000 + TruncDiv(2800 * CubeBelow(t2), 1000) + stutter) * 850, 1000)
    ELSE 1000 + TruncDiv(1900 * CubeBelow(u), 1000) + (1900 * SquareBelow(u)) \div 1000

\* the scale the spawn animation starts from and the scale it overshoots to
minScale(v, base) == IF v = "world_js" THEN 10 ELSE (50 * base) \div 1000

overScale(v, base) == IF v = "world_js" THEN 1250 ELSE (1150 * base) \div 1000

\* growFactor while age < growDuration
growFactor(v, base, u) ==
    Lerp(minScale(v, base), overScale(v, base),
         IF v = "world_js" THEN Min(1000, eased(v, u)) ELSE eased(v, u))

\* dist, in thousandths of a unit, from the planar offset in dm
PlanarDist(ddx, ddz) == 10 * CeilSqrt(100 * (Sq(ddx) + Sq(ddz)))

\* distFactor = clamp((dist - 10) / 25, 0, 1)
distFactor(dist) == Clamp((dist - 10000) \div 25, 0, 1000)

\* riseOffset while age < growDuration
riseOffset(v, dist, u) ==
    IF v = "world_js"
    THEN Lerp(-4500, Lerp(500, 2500, distFactor(dist)), Min(1000, eased(v, u)))
    ELSE Lerp(-2000, Lerp(300, 1400, distFactor(dist)), eased(v, u))

\* what is added to rotation.y while age < growDuration:
\* spawnRot * (sin(u pi) * 0.9 + sin(3 u pi) * 0.3)      src/world.js
\* (1 - u) * spinSpeed * 0.4 * dt                        part_000
yawStep(v, spin, u, dt) ==
    IF v = "world_js"
    THEN TruncDiv(spin * (TruncDiv(SinPi(u) * 900, 1000) + TruncDiv(SinPi(3 * u) * 300, 1000)), 1000)
    ELSE TruncDiv((((((1000 - u) * spin) \div 1000) * 400) \div 1000) * dt, 1000)

\* part_000's drift along the radial direction: (1 - u) * 0.8 * distFactor
\* times the unit vector from the camera to the anchor, when dist > 0.001
driftOffset(v, dd, dist, u) ==
    IF v = "world_js" \/ ~(dist > 1) THEN 0
    ELSE TruncDiv(dd * 100 * (((((1000 - u) * 800) \div 1000) * distFactor(dist)) \div 1000), dist)

\* the age the call computes: Math.max(0, world.internalTime - spawnTime)
Age(time, a) == Max(0, time - a.spawnTime)

\* the body of the second loop for one tree
AnimateTreeKeepsOvershoot(v, a, anchor, time, cx, cz, dt) ==
    LET age  == Age(time, a)
        u    == Progress(v, age)
        dist == PlanarDist(anchor.x - cx, anchor.z - cz)
    IN  IF age < growDuration(v)
        THEN [a EXCEPT !.scale = growFactor(v, a.scaleBase, u),
                       !.rise  = riseOffset(v, dist, u),
                       !.dyaw  = yawStep(v, a.spin, u, dt),
                       !.yaw   = @ + yawStep(v, a.spin, u, dt),
                       !.offx  = driftOffset(v, anchor.x - cx, dist, u),
                       !.offz  = driftOffset(v, anchor.z - cz, dist, u)]
        ELSE [a EXCEPT !.scale = overScale(v, a.scaleBase),
                       !.rise  = 0,
                       !.dyaw  = 0,
                       !.offx  = 0,
                       !.offz  = 0]

AnimateTree(v, a, anchor, time, cx, cz, dt) ==
    LET age  == Age(time, a)
        u    == Progress(v, age)
        dist == PlanarDist(anchor.x - cx, anchor.z - cz)
    IN  IF age < growDuration(v)
        THEN [a EXCEPT !.scale = growFactor(v, a.scaleBase, u),
                       !.rise  = riseOffset(v, dist, u),
                       !.dyaw  = yawStep(v, a.spin, u, dt),
                       !.yaw   = @ + yawStep(v, a.spin, u, dt),
                       !.offx  = driftOffset(v, anchor.x - cx, dist, u),
                       !.offz  = driftOffset(v, anchor.z - cz, dist, u)]
        ELSE [a EXCEPT !.scale = a.scaleBase,
                       !.rise  = 0,
                       !.dyaw  = 0,
                       !.offx  = 0,
                       !.offz  = 0]

\* createWorld: userData.spawnTime = -1000, scale set to the base scale
\* (scaleBase = 0.8 + rand * 0.6 and spinSpeed = 0.8 + rand * 0.8 in part_000)
NewAnim(v, rs, rp) ==
    LET base == IF v = "world_js" THEN 1000 ELSE 800 + (600 * rs) \div 1000
    IN  [spawnTime |-> -1000000, scaleBase |-> base,
         spin  |-> IF v = "world_js" THEN 0 ELSE 800 + (800 * rp) \div 1000,
         scale |-> base, rise |-> 0, dyaw |-> 0, yaw |-> 0, offx |-> 0, offz |-> 0]

\* the first loop's writes to a tree it reassigns: spawnTime = internalTime,
\* the starting scale, and a fresh spawnRotation = rand * 2 pi (src/world.js)
\* or spinSpeed (part_000)
RespawnKeepsSpawnTime(v, a, time, rp) ==
    [a EXCEPT !.yaw   = 0,
              !.scale = IF v = "world_js" THEN 10 ELSE (50 * a.scaleBase) \div 1000,
              !.spin  = IF v = "world_js" THEN (6283 * rp) \div 1000 ELSE 800 + (800 * rp) \div 1000]

Respawn(v, a, time, rp) ==
    [a EXCEPT !.spawnTime = time,
              !.yaw   = 0,
              !.scale = IF v = "world_js" THEN 10 ELSE (50 * a.scaleBase) \div 1000,
              !.spin  = IF v = "world_js" THEN (6283 * rp) \div 1000 ELSE 800 + (800 * rp) \div 1000]

\* updateWorld(world, camera, dt), trees part: the clock advances, the first
\* loop reassigns, the second loop animates.  Every outcome, each with the
\* record of the first loop.
updateWorldTrees(v, ts, an, time, cx, cz, dt) ==
    LET now == time + dt
    IN  { [trees |-> w.trees,
           info  |-> w.info,
           time  |-> now,
           anim  |-> [i \in 1..NumTrees |->
                        AnimateTree(v,
                                    IF w.info[i].re THEN Respawn(v, an[i], now, rp) ELSE an[i],
                                    w.trees[i], now, cx, cz, dt)]] :
            w \in updateWorld(v, ts, cx, cz), rp \in RandSpin }

---------------------------------------------------------------------------
(* main.js: focus, the handlers and the frame *)

\* values of threatLevel handed to updateFocus, in thousandths
ThreatSamples == {0, 100, 200, 1000}

\* updateFocus(dt, threat): drain = 0.003 + threat * 0.03, regen = 0.008,
\* focus -= drain * dt * 60 floored at 0 when threat > 0.1,
\* focus += regen * dt * 60 capped at 1 otherwise
updateFocusNoClamp(f, dt, threat) ==
    LET drain == 3000 + 30 * threat
        regen == 8000
    IN  IF threat > 100
        THEN f - (drain * dt * 60) \div 1000
        ELSE f + (regen * dt * 60) \div 1000

updateFocusStuck(f, dt, threat) == f

updateFocus(f, dt, threat) ==
    LET drain == 3000 + 30 * threat
        regen == 8000
    IN  IF threat > 100
        THEN Max(0, f - (drain * dt * 60) \div 1000)
        ELSE Min(1000000, f + (regen * dt * 60) \div 1000)

\* what localStorage can hold for a slot: nothing, or a state saved by an
\* earlier saveToSlot (localStorage outlives the session)
NoSave == [saved |-> FALSE, x |-> 0, z |-> 0]

StoredStates == {NoSave} \cup {[saved |-> TRUE, x |-> c.x, z |-> c.z] : c \in CamSet}

NoFocusObs == [op |-> "none", dt |-> 0, threat |-> 0, prev |-> 1000000]

\* resetGameState followed by startGame (the new-game buttons)
ClickNewGame ==
    /\ camera' = [x |-> 0, z |-> 0]
    /\ focus' = 1000000
    /\ gameStarted' = TRUE
    /\ wobs' = [wobs EXCEPT !.op = "newGame"]
    /\ fobs' = [NoFocusObs EXCEPT !.op = "newGame", !.prev = focus]
    /\ UNCHANGED <<variant, trees, entities, eret, eobs, restVars>>

\* loadFromSlot(slot) followed by startGame (a slot's continue button):
\* applyState moves the camera and leaves focus alone
ClickSlotContinue ==
    \E raw \in StoredStates :
        /\ camera' = IF raw.saved THEN [x |-> raw.x, z |-> raw.z] ELSE camera
        /\ gameStarted' = TRUE
        /\ wobs' = [wobs EXCEPT !.op = "load"]
        /\ fobs' = [NoFocusObs EXCEPT !.op = "load", !.prev = focus]
        /\ UNCHANGED <<variant, focus, trees, entities, eret, eobs, restVars>>

\* what controls.update adds to camera.position.x in one frame, in dm
\* (speed * dt is at most 3.1 * 0.05)
WalkSteps == {0, -1}

\* animate(), the part that moves the camera and recycles the trees:
\* controls.update(dt) when the game is started, then updateWorld
FrameWorld ==
    \E step \in IF gameStarted THEN WalkSteps ELSE {0} :
        LET to == [x |-> camera.x + step, z |-> camera.z]
        IN  /\ \E c \in CamSet : c.z = to.z /\ c.x - to.x \in 0..MaxWalk
            /\ \E w \in updateWorld(variant, trees, to.x, to.z) :
                  /\ camera' = to
                  /\ trees' = w.trees
                  /\ wobs' = [op |-> "frame", info |-> w.info]
            /\ UNCHANGED <<variant, gameStarted, focus, entities, eret, fobs, eobs, restVars>>

\* animate(), the part that drives the presence:
\* updateEntities(entities, camera, dt, focus) with dt = min(delta, 0.05).
\* The focus argument and Math.random() are read only by a call that reaches
\* the trial, and the other draws only by a call whose trial succeeds.
FrameEntities ==
    /\ entities.active \/ entities.timer > -MaxIdle
    /\ \E delta \in ClockDeltas, cam \in EntityCams :
          LET dt   == Min(delta, maxDt)
              due  == Eligible(entities, dt)
          IN  \E f \in IF due THEN FocusSamples ELSE {focus} :
              \E tr \in IF due THEN RandTrial ELSE {NoDraws.trial} :
              \E d \in IF due /\ TrialOk(tr, f, dt)
                       THEN TriggerDraws(tr)
                       ELSE {[NoDraws EXCEPT !.trial = tr]} :
                  LET r == updateEntities(entities, cam, dt, f, d)
                  IN  /\ entities' = r.state
                      /\ eret' = r.ret
                      /\ eobs' = r.obs
    /\ UNCHANGED <<variant, camera, gameStarted, focus, trees, wobs, fobs, restVars>>

\* animate(), the part that feeds the threat back into focus:
\* updateFocus(dt, threatLevel) with dt = min(delta, 0.05)
FrameFocus ==
    \E delta \in ClockDeltas, threat \in ThreatSamples :
        LET dt == Min(delta, maxDt)
        IN  /\ focus' = updateFocus(focus, dt, threat)
            /\ fobs' = [op |-> "updateFocus", dt |-> dt, threat |-> threat, prev |-> focus]
            /\ UNCHANGED <<variant, camera, gameStarted, trees, entities, eret, wobs, eobs, restVars>>

\* one feedback update called on its own, with the dt of the spec's scenario
ScenarioDts == {100}

CallUpdateFocus ==
    \E dt \in ScenarioDts, threat \in {0, 1000} :
        /\ focus' = updateFocus(focus, dt, threat)
        /\ fobs' = [op |-> "updateFocus", dt |-> dt, threat |-> threat, prev |-> focus]
        /\ UNCHANGED <<variant, camera, gameStarted, trees, entities, eret, wobs, eobs, restVars>>

\* how long (ms of world.internalTime) the animation is followed
MaxClock == 10600

\* until when (ms of world.internalTime) a slot is loaded
MaxLoadClock == 0

\* a slot's continue button pressed on the title screen, before the frames
\* that follow
LoadAtTitle ==
    /\ internalTime <= MaxLoadClock
    /\ ClickSlotContinue

\* animate() with no movement key held, the part that updates the trees:
\* updateWorld(world, camera, dt) with dt = min(delta, 0.05), delta > 0
FrameTrees ==
    /\ internalTime < MaxClock
    /\ \E delta \in ClockDeltas \ {0} :
          LET dt == Min(delta, maxDt)
          IN  \E w \in updateWorldTrees(variant, trees, anim, internalTime, camera.x, camera.z, dt) :
                  /\ trees' = w.trees
                  /\ anim' = w.anim
                  /\ internalTime' = w.time
                  /\ wobs' = [op |-> "frame", info |-> w.info]
    /\ UNCHANGED <<variant, camera, gameStarted, focus, entities, eret, fobs, eobs, frameVars>>

---------------------------------------------------------------------------
(* main.js: the whole frame, animate() *)

\* dt = Math.min(clock.getDelta(), 0.05)
FrameDtUnclamped(delta) == delta

FrameDt(delta) == Min(delta, maxDt)

\* the keys held during a frame: none, or 'a' with Shift (a sprint to the left)
Keys == {"none", "a+shift"}

\* sprintSpeed of controls.update, in dm per second
sprintSpeed == 31

NoMove == [moveIntensity |-> 0, isSprinting |-> FALSE]

\* controls.update(dt) with yaw = 0: forward = 0 and right = -1 when 'a' is
\* held, so len = 1, mx = -1, dx = -speed * dt and dz = 0;
\* moveIntensity = (shift ? 1.0 : 0.6) * len, in thousandths
controlsUpdate(cam, keys, dt) ==
    LET len      == IF keys = "none" THEN 0 ELSE 1000
        moveStep == TruncDiv(sprintSpeed * dt, 1000)
    IN  [camera   |-> [x |-> cam.x - (IF len > 10 THEN moveStep ELSE 0), z |-> cam.z],
         moveInfo |-> [moveIntensity |-> IF len > 10 THEN len ELSE 0,
                       isSprinting   |-> len > 10]]

\* world.tileSize (dm) and world.gridSize as createWorld sets them
tileSize == 800

gridSize == 3

\* the world object as updateWorld reads it, trees and internalTime apart:
\*   pool      "trees" | "empty" (trees is []) | "missing" (no trees property)
\*   hasGrounds, tileSize, gridSize   world.grounds is set, world.tileSize, world.gridSize
createWorldCfg == [pool |-> "trees", hasGrounds |-> TRUE, tileSize |-> tileSize, gridSize |-> gridSize]

\* the k-th tile of the double loop gx, gz = -halfGrid..halfGrid (k from 1):
\* baseX + gx * tileSize, baseZ + gz * tileSize with base = floor(c / tileSize) * tileSize
TileAtNoFollow(c, k, cx, cz) ==
    LET halfGrid == c.gridSize \div 2
        side     == 2 * halfGrid + 1
        gx       == ((k - 1) \div side) - halfGrid
        gz       == ((k - 1) % side) - halfGrid
    IN  [x |-> gx * c.tileSize, z |-> gz * c.tileSize]

TileAt(c, k, cx, cz) ==
    LET halfGrid == c.gridSize \div 2
        side     == 2 * halfGrid + 1
        gx       == ((k - 1) \div side) - halfGrid
        gz       == ((k - 1) % side) - halfGrid
    IN  [x |-> (cx \div c.tileSize) * c.tileSize + gx * c.tileSize,
         z |-> (cz \div c.tileSize) * c.tileSize + gz * c.tileSize]

\* the ground tiles createWorld makes: gridSize * gridSize of them around the origin
createGrounds == [k \in 1..(gridSize * gridSize) |-> TileAt(createWorldCfg, k, 0, 0)]

\* updateWorld, the ground tiles: skipped unless grounds, tileSize and gridSize
\* are truthy; the loop reads world.grounds[idx++] without looking at its
\* length, so the first index past the end is undefined and writing its
\* position raises a TypeError, the tiles before it having been moved
updateGrounds(c, gr, cx, cz) ==
    IF ~(c.hasGrounds /\ c.tileSize # 0 /\ c.gridSize # 0)
    THEN [grounds |-> gr, raised |-> FALSE]
    ELSE LET side == 2 * (c.gridSize \div 2) + 1
         IN  [grounds |-> [k \in 1..Len(gr) |->
                              IF k <= side * side THEN TileAt(c, k, cx, cz) ELSE gr[k]],
              raised  |-> side * side > Len(gr)]

\* updateWorld(world, camera, dt) as a whole: the clock, the two loops over the
\* trees, the ground tiles.  A missing pool raises at trees.length, after the
\* clock has advanced; an empty pool leaves both loops without iterations.
updateWorldAll(v, c, ts, an, gr, time, cx, cz, dt) ==
    IF c.pool = "missing"
    THEN { [trees |-> ts, anim |-> an, info |-> <<>>, time |-> time + dt,
            grounds |-> gr, raised |-> TRUE] }
    ELSE LET g == updateGrounds(c, gr, cx, cz)
         IN  IF c.pool = "empty"
             THEN { [trees |-> ts, anim |-> an, info |-> <<>>, time |-> time + dt,
                     grounds |-> g.grounds, raised |-> g.raised] }
             ELSE { [trees |-> w.trees, anim |-> w.anim, info |-> w.info, time |-> w.time,
                     grounds |-> g.grounds, raised |-> g.raised] :
                        w \in updateWorldTrees(v, ts, an, time, cx, cz, dt) }

\* how long a whisper stays, in ms (whisperTimer = 2.2)
whisperDuration == 2200

\* how far below zero whisperTimer must be for the text to be removed (-2)
whisperClearDelay == 2000

\* whisperTimer and the whisper element before the first frame
NoWhisper == [timer |-> 0, text |-> "", opacity |-> 1]

\* updateWhisper(dt, text)
updateWhisperClearsAtOnce(w, dt, text) ==
    LET t == w.timer - dt
    IN  IF text # ""
        THEN [timer |-> whisperDuration, text |-> text, opacity |-> 1]
        ELSE IF t <= 0
             THEN [timer |-> t, text |-> "", opacity |-> 0]
             ELSE [w EXCEPT !.timer = t]

updateWhisper(w, dt, text) ==
    LET t == w.timer - dt
    IN  IF text # ""
        THEN [timer |-> whisperDuration, text |-> text, opacity |-> 1]
        ELSE IF t <= 0
             THEN [timer |-> t, text |-> IF t < -whisperClearDelay THEN "" ELSE w.text,
                   opacity |-> 0]
             ELSE [w EXCEPT !.timer = t]

\* createAudioSystem() in a browser whose new AudioContext is in the given
\* state: started is false and the pointerdown listener is registered once.
\* resumes counts the calls of ctx.resume(); pressed, suspendedAtPress and
\* resumedSincePress tell of the first pointerdown whether it happened,
\* whether the context was not running then, and whether ctx.resume() was
\* called in it or after it (history only)
createAudioSystem(state) ==
    [state |-> state, started |-> FALSE, listening |-> TRUE, resumes |-> 0,
     pressed |-> FALSE, suspendedAtPress |-> FALSE, resumedSincePress |-> FALSE]

\* ensureStarted(): nothing when started or when ctx.state is 'running';
\* otherwise ctx.resume() and started = true.  audio.update(threat, focus)
\* calls it first; the gain and frequency ramps that follow are not followed
ensureStarted(a) ==
    IF a.started \/ a.state = "running" THEN a
    ELSE [a EXCEPT !.started = TRUE, !.resumes = @ + 1, !.resumedSincePress = a.pressed]

\* the save slots of the title screen
Slots == {1, 2, 3}

\* what a slot of localStorage holds when nothing was saved to it
NoData == [saved |-> FALSE]

\* localStorage of a browser that never saved: no slot key, no last-slot key
EmptyStorage == [slots |-> [s \in Slots |-> NoData], last |-> 0]

\* main.js's module variables besides focus and gameStarted, camera.rotation
\* (rot), the yaw and pitch controls.js keeps (look), and the slot in use
\* (0 for null), as they are after module load
NewSession ==
    [rot |-> [x |-> 0, y |-> 0, z |-> 0],
     look |-> [yaw |-> 0, pitch |-> 0],
     flashlightOn |-> TRUE,
     totalDistanceMeters |-> 0,
     lastPos |-> [x |-> 0, z |-> 0],
     currentSlot |-> 0,
     autosaveTimer |-> 0]

\* autosave period, in ms (autosaveTimer >= 30)
autosavePeriod == 30000

\* serializeState(): the camera's position and rotation, flashlightOn and
\* totalDistanceMeters (position.y and the timestamp are not followed)
serializeState(cam, s) ==
    [saved |-> TRUE, malformed |-> "no",
     camera |-> [x |-> cam.x, z |-> cam.z, rotX |-> s.rot.x, rotY |-> s.rot.y, rotZ |-> s.rot.z],
     flashlightOn |-> s.flashlightOn,
     totalDistanceMeters |-> s.totalDistanceMeters]

\* saveToSlot(slot): nothing for a falsy slot; otherwise the serialized state
\* goes through JSON.stringify into the slot's key (finite numbers and
\* booleans are written as they are) and the slot becomes the last slot
saveToSlot(st, slot, cam, s) ==
    IF slot = 0 THEN st
    ELSE [st EXCEPT !.slots[slot] = serializeState(cam, s), !.last = slot]

\* JSON.parse(raw) throws
unparsable(data) == data.saved /\ data.malformed = "unparsable"

\* state && state.camera of applyState
hasCamera(data) == data.saved /\ data.malformed \notin {"unparsable", "noCamera"}

\* applyState(state): returns at once without state.camera.  Otherwise the
\* camera's position and rotation are set to the fields of state.camera
\* whatever they are (set: "numbers", or "undefined" when state.camera has
\* none of them and the numbers in place before stay in the model),
\* flashlightOn is !!state.flashlightOn and totalDistanceMeters is
\* state.totalDistanceMeters || 0
applyStateNoFlashlight(data, cam, s) ==
    IF ~hasCamera(data)
    THEN [camera |-> cam, session |-> s, set |-> "none"]
    ELSE IF data.malformed = "cameraNoNumbers"
    THEN [camera |-> cam,
          session |-> [s EXCEPT !.flashlightOn = FALSE, !.totalDistanceMeters = 0],
          set |-> "undefined"]
    ELSE [camera  |-> [x |-> data.camera.x, z |-> data.camera.z], set |-> "numbers",
          session |-> [s EXCEPT !.rot = [x |-> data.camera.rotX, y |-> data.camera.rotY,
                                         z |-> data.camera.rotZ],
                                !.totalDistanceMeters = data.totalDistanceMeters,
                                !.lastPos = [x |-> data.camera.x, z |-> data.camera.z]]]

applyStateStaleLastPos(data, cam, s) ==
    IF ~hasCamera(data)
    THEN [camera |-> cam, session |-> s, set |-> "none"]
    ELSE IF data.malformed = "cameraNoNumbers"
    THEN [camera |-> cam,
          session |-> [s EXCEPT !.flashlightOn = FALSE, !.totalDistanceMeters = 0],
          set |-> "undefined"]
    ELSE [camera  |-> [x |-> data.camera.x, z |-> data.camera.z], set |-> "numbers",
          session |-> [s EXCEPT !.rot = [x |-> data.camera.rotX, y |-> data.camera.rotY,
                                         z |-> data.camera.rotZ],
                                !.flashlightOn = data.flashlightOn,
                                !.totalDistanceMeters = data.totalDistanceMeters]]

applyState(data, cam, s) ==
    IF ~hasCamera(data)
    THEN [camera |-> cam, session |-> s, set |-> "none"]
    ELSE IF data.malformed = "cameraNoNumbers"
    THEN [camera |-> cam,
          session |-> [s EXCEPT !.flashlightOn = FALSE, !.totalDistanceMeters = 0],
          set |-> "undefined"]
    ELSE [camera  |-> [x |-> data.camera.x, z |-> data.camera.z], set |-> "numbers",
          session |-> [s EXCEPT !.rot = [x |-> data.camera.rotX, y |-> data.camera.rotY,
                                         z |-> data.camera.rotZ],
                                !.flashlightOn = data.flashlightOn,
                                !.totalDistanceMeters = data.totalDistanceMeters,
                                !.lastPos = [x |-> data.camera.x, z |-> data.camera.z]]]

\* loadFromSlot(slot): false when the slot's key is empty or JSON.parse
\* throws (caught and logged); otherwise applyState, the slot becomes the last
\* slot, true
loadFromSlot(st, slot, cam, s) ==
    IF ~st.slots[slot].saved \/ unparsable(st.slots[slot])
    THEN [camera |-> cam, session |-> s, storage |-> st, ret |-> FALSE, set |-> "none"]
    ELSE LET a == applyState(st.slots[slot], cam, s)
         IN  [camera |-> a.camera, session |-> a.session,
              storage |-> [st EXCEPT !.last = slot], ret |-> TRUE, set |-> a.set]

\* no save followed yet
NoSnapshot == [saved |-> FALSE]

\* the game's state as a save finds it
Snapshot(cam, s, f) ==
    [saved |-> TRUE, camera |-> cam, rot |-> s.rot, flashlightOn |-> s.flashlightOn,
     totalDistanceMeters |-> s.totalDistanceMeters, focus |-> f]

\* animate(), the block under 'if (gameStarted)' after controls.update and
\* updateHeadBob: the distance walked (Math.hypot of the planar step since
\* lastPos) and the autosave
trackAndAutosave(st, cam, s, dt) ==
    LET frameDist == CeilSqrt(Sq(cam.x - s.lastPos.x) + Sq(cam.z - s.lastPos.z))
        s1 == IF frameDist > 0
              THEN [s EXCEPT !.totalDistanceMeters = @ + frameDist, !.lastPos = cam]
              ELSE s
        due == s1.currentSlot # 0 /\ s1.autosaveTimer + dt >= autosavePeriod
        s2 == IF s1.currentSlot = 0 THEN s1
              ELSE [s1 EXCEPT !.autosaveTimer = IF due THEN 0 ELSE @ + dt]
    IN  [session |-> s2,
         saves   |-> due,
         storage |-> IF due THEN saveToSlot(st, s2.currentSlot, cam, s2) ELSE st]

\* until when (ms of world.internalTime) whole frames are followed; they are
\* not followed past a frame that leaves the clock negative or NaN
MaxFrameClock == 100

\* the calls animate() makes before updateWorld, with their arguments; the
\* first entry is the clock's reading and world.internalTime as the frame
\* found it
StagesBeforeWorld(started, delta, time, dt, moveInfo) ==
    << [stage |-> "clock", delta |-> delta, isNaN |-> FALSE, time |-> time] >>
    \o IF started
       THEN << [stage |-> "controls", dt |-> dt, moveInfo |-> moveInfo],
               [stage |-> "headBob", dt |-> dt, moveInfo |-> moveInfo] >>
       ELSE << >>

\* the calls animate() makes from updateEntities on, with their arguments:
\* f is focus before updateFocus, f2 after it
StagesAudioFirst(dt, f, ret, f2) ==
    << [stage |-> "entities", dt |-> dt, focus |-> f],
       [stage |-> "audio", threat |-> ret.threatLevel, focus |-> f],
       [stage |-> "focus", dt |-> dt, threat |-> ret.threatLevel],
       [stage |-> "whisper", dt |-> dt, text |-> ret.whisper] >>

StagesAfterWorld(dt, f, ret, f2) ==
    << [stage |-> "entities", dt |-> dt, focus |-> f],
       [stage |-> "focus", dt |-> dt, threat |-> ret.threatLevel],
       [stage |-> "whisper", dt |-> dt, text |-> ret.whisper],
       [stage |-> "audio", threat |-> ret.threatLevel, focus |-> f2] >>

\* up to which accumulated spawn twist of a tree (thousandths of a radian) whole
\* frames are followed: src/world.js adds the twist in every frame, also in
\* frames with dt = 0, which leave the clock where it is
MaxTwist == 100

\* animate(): one frame, for a clock reading among readings and the draws of
\* Math.random() among samples.  When updateWorld raises, the frame ends there: what ran
\* before it stays done and nothing after it runs.
Animate(readings, samples) ==
    /\ nan = {}
    /\ internalTime >= 0
    /\ internalTime < MaxFrameClock
    /\ \A i \in DOMAIN anim : anim[i].yaw <= MaxTwist
    /\ \E delta \in readings, keys \in IF gameStarted THEN Keys ELSE {"none"} :
          LET dt   == FrameDt(delta)
              ctl  == IF gameStarted
                      THEN controlsUpdate(camera, keys, dt)
                      ELSE [camera |-> camera, moveInfo |-> NoMove]
              cam  == ctl.camera
              s1   == IF gameStarted
                      THEN [session EXCEPT !.rot = [x |-> session.look.pitch,
                                                    y |-> session.look.yaw, z |-> 0]]
                      ELSE session
              ta   == IF gameStarted
                      THEN trackAndAutosave(storage, cam, s1, dt)
                      ELSE [session |-> session, saves |-> FALSE, storage |-> storage]
              pre  == StagesBeforeWorld(gameStarted, delta, internalTime, dt, ctl.moveInfo)
          IN  /\ \E c \in CamSet : c.z = cam.z /\ c.x - cam.x \in 0..MaxWalk
              /\ camera' = cam
              /\ session' = ta.session
              /\ storage' = ta.storage
              /\ savedAt' = IF ta.saves
                            THEN [savedAt EXCEPT ![ta.session.currentSlot] =
                                                     Snapshot(cam, ta.session, focus)]
                            ELSE savedAt
              /\ \E w \in updateWorldAll(variant, cfg, trees, anim, grounds, internalTime,
                                         cam.x, cam.z, dt) :
                    /\ trees' = w.trees
                    /\ anim' = w.anim
                    /\ internalTime' = w.time
                    /\ grounds' = w.grounds
                    /\ wobs' = [op |-> "frame", info |-> w.info]
                    /\ raised' = w.raised
                    /\ IF w.raised
                       THEN /\ stages' = pre \o << [stage |-> "world", dt |-> dt] >>
                            /\ UNCHANGED <<entities, eret, eobs, focus, fobs, whisper, audio>>
                       ELSE LET due == Eligible(entities, dt)
                            IN  \E tr \in IF due THEN {x.trial : x \in samples}
                                                  ELSE {NoDraws.trial} :
                                \E d \in IF due /\ TrialOk(tr, focus, dt)
                                         THEN {x \in samples : x.trial = tr}
                                         ELSE {[NoDraws EXCEPT !.trial = tr]} :
                                    LET r  == updateEntities(entities, cam, dt, focus, d)
                                        f2 == updateFocus(focus, dt, r.ret.threatLevel)
                                    IN  /\ entities' = r.state
                                        /\ eret' = r.ret
                                        /\ eobs' = r.obs
                                        /\ focus' = f2
                                        /\ fobs' = [op |-> "updateFocus", dt |-> dt,
                                                    threat |-> r.ret.threatLevel, prev |-> focus]
                                        /\ whisper' = updateWhisper(whisper, dt, r.ret.whisper)
                                        /\ audio' = ensureStarted(audio)
                                        /\ stages' = pre \o << [stage |-> "world", dt |-> dt] >>
                                                         \o StagesAfterWorld(dt, focus, r.ret, f2)
    /\ UNCHANGED <<variant, gameStarted, cfg, nan, loadRet>>

\* The title-screen handlers work on main.js's state as a record
\* [camera, focus, gameStarted, session, storage, nan, loadRet].

\* resetGameState()
resetGameState(m) ==
    [m EXCEPT !.camera = [x |-> 0, z |-> 0],
              !.focus = 1000000,
              !.nan = @ \ {"camera", "focus"},
              !.session = [@ EXCEPT !.rot = [x |-> 0, y |-> 0, z |-> 0],
                                    !.totalDistanceMeters = 0,
                                    !.lastPos = [x |-> 0, z |-> 0]]]

\* loadFromSlot(slot) on the record
loadInto(m, slot) ==
    LET l == loadFromSlot(m.storage, slot, m.camera, m.session)
    IN  [m EXCEPT !.camera = l.camera, !.session = l.session, !.storage = l.storage,
                  !.nan = CASE l.set = "numbers"   -> @ \ {"camera"}
                            [] l.set = "undefined" -> @ \cup {"camera", "rotation"}
                            [] OTHER               -> @,
                  !.loadRet = l.ret]

\* autoSelectAndLoadSlotIfPossible(): the last slot used (slot 1 without one),
\* or the first slot that holds a save when that one is empty
autoSelectAndLoadSlotIfPossible(m) ==
    LET preferred == IF m.storage.last \in Slots THEN m.storage.last ELSE 1
        holding   == {s \in Slots : m.storage.slots[s].saved}
        selected  == IF preferred \in holding \/ holding = {}
                     THEN preferred
                     ELSE CHOOSE s \in holding : \A o \in holding : s <= o
        m1        == [m EXCEPT !.session.currentSlot = selected]
        m2        == IF selected \in holding THEN loadInto(m1, selected) ELSE resetGameState(m1)
    IN  [m2 EXCEPT !.storage.last = selected]

\* startGame()
startGameAgain(m) ==
    LET m1 == IF m.session.currentSlot = 0 THEN autoSelectAndLoadSlotIfPossible(m) ELSE m
    IN  [m1 EXCEPT !.gameStarted = TRUE, !.session.autosaveTimer = 0]

startGame(m) ==
    IF m.gameStarted THEN m
    ELSE LET m1 == IF m.session.currentSlot = 0 THEN autoSelectAndLoadSlotIfPossible(m) ELSE m
         IN  [m1 EXCEPT !.gameStarted = TRUE, !.session.autosaveTimer = 0]

MainState == [camera |-> camera, focus |-> focus, gameStarted |-> gameStarted,
              session |-> session, storage |-> storage, nan |-> nan, loadRet |-> loadRet]

\* the handlers below leave the frame's state alone
Handled(m, op) ==
    /\ camera' = m.camera
    /\ focus' = m.focus
    /\ gameStarted' = m.gameStarted
    /\ session' = m.session
    /\ storage' = m.storage
    /\ nan' = m.nan
    /\ loadRet' = m.loadRet
    /\ wobs' = [wobs EXCEPT !.op = op]
    /\ fobs' = [NoFocusObs EXCEPT !.op = op, !.prev = focus]
    /\ UNCHANGED <<variant, trees, entities, eret, eobs, internalTime, anim,
                   stages, raised, cfg, grounds, whisper, savedAt, audio>>

\* a slot's new-game button on the title screen
SlotNewClick ==
    /\ ~gameStarted
    /\ \E slot \in Slots :
          LET m1 == resetGameState([MainState EXCEPT !.session.currentSlot = slot])
          IN  Handled(startGame([m1 EXCEPT !.storage.last = slot]), "newGame")

\* a slot's continue button on the title screen (updateSlotUI disables it
\* for an empty slot and for one whose content JSON.parse rejects)
SlotContinueClick ==
    /\ ~gameStarted
    /\ \E slot \in Slots :
          /\ storage.slots[slot].saved
          /\ ~unparsable(storage.slots[slot])
          /\ Handled(startGame(loadInto([MainState EXCEPT !.session.currentSlot = slot], slot)),
                     "load")

\* Space or Enter on the title screen
StartKey ==
    /\ ~gameStarted
    /\ Handled(startGame(MainState), "start")

---------------------------------------------------------------------------
(* Specifications *)

\* the forest the other specifications start with: one outcome of createWorld
SomeWorld == CHOOSE w \in createWorld("world_js") : TRUE

\* module load of main.js, any outcome of createWorld
InitWorld ==
    /\ camera = [x |-> 0, z |-> 0]
    /\ gameStarted = FALSE
    /\ focus = 1000000
    /\ fobs = NoFocusObs
    /\ entities = createEntitySystem
    /\ eret = NoReturn
    /\ eobs = NoEntityObs
    /\ internalTime = 0
    /\ stages = << >>
    /\ raised = FALSE
    /\ cfg = createWorldCfg
    /\ grounds = createGrounds
    /\ whisper = NoWhisper
    /\ nan = {}
    /\ session = NewSession
    /\ storage = EmptyStorage
    /\ loadRet = FALSE
    /\ savedAt = [s \in Slots |-> NoSnapshot]
    /\ audio = createAudioSystem("suspended")
    /\ variant \in Variants
    /\ \E w \in createWorld(variant) :
          /\ trees = w.trees
          /\ wobs = [op |-> "createWorld", info |-> w.info]
          /\ anim = [i \in 1..NumTrees |-> NewAnim(variant, 500, 500)]

NextWorld == FrameWorld \/ ClickNewGame \/ ClickSlotContinue

SpecWorld == InitWorld /\ [][NextWorld]_vars

\* module load of main.js
InitEntity ==
    /\ camera = [x |-> 0, z |-> 0]
    /\ gameStarted = FALSE
    /\ focus = 1000000
    /\ fobs = NoFocusObs
    /\ entities = createEntitySystem
    /\ eret = NoReturn
    /\ eobs = NoEntityObs
    /\ internalTime = 0
    /\ stages = << >>
    /\ raised = FALSE
    /\ cfg = createWorldCfg
    /\ grounds = createGrounds
    /\ whisper = NoWhisper
    /\ nan = {}
    /\ session = NewSession
    /\ storage = EmptyStorage
    /\ loadRet = FALSE
    /\ savedAt = [s \in Slots |-> NoSnapshot]
    /\ audio = createAudioSystem("suspended")
    /\ variant = "world_js"
    /\ trees = SomeWorld.trees
    /\ anim = [i \in 1..NumTrees |-> NewAnim("world_js", 500, 500)]
    /\ wobs = [op |-> "createWorld", info |-> SomeWorld.info]

NextEntity == FrameEntities

SpecEntity == InitEntity /\ [][NextEntity]_vars

\* module load of main.js
InitFocus ==
    /\ camera = [x |-> 0, z |-> 0]
    /\ gameStarted = FALSE
    /\ focus = 1000000
    /\ fobs = NoFocusObs
    /\ entities = createEntitySystem
    /\ eret = NoReturn
    /\ eobs = NoEntityObs
    /\ internalTime = 0
    /\ stages = << >>
    /\ raised = FALSE
    /\ cfg = createWorldCfg
    /\ grounds = createGrounds
    /\ whisper = NoWhisper
    /\ nan = {}
    /\ session = NewSession
    /\ storage = EmptyStorage
    /\ loadRet = FALSE
    /\ savedAt = [s \in Slots |-> NoSnapshot]
    /\ audio = createAudioSystem("suspended")
    /\ variant = "world_js"
    /\ trees = SomeWorld.trees
    /\ anim = [i \in 1..NumTrees |-> NewAnim("world_js", 500, 500)]
    /\ wobs = [op |-> "createWorld", info |-> SomeWorld.info]

NextFocus == FrameFocus \/ ClickNewGame \/ ClickSlotContinue

SpecFocus == InitFocus /\ [][NextFocus]_vars

\* module load of main.js, any outcome of createWorld
InitSpawn ==
    /\ camera = [x |-> 0, z |-> 0]
    /\ gameStarted = FALSE
    /\ focus = 1000000
    /\ fobs = NoFocusObs
    /\ entities = createEntitySystem
    /\ eret = NoReturn
    /\ eobs = NoEntityObs
    /\ internalTime = 0
    /\ stages = << >>
    /\ raised = FALSE
    /\ cfg = createWorldCfg
    /\ grounds = createGrounds
    /\ whisper = NoWhisper
    /\ nan = {}
    /\ session = NewSession
    /\ storage = EmptyStorage
    /\ loadRet = FALSE
    /\ savedAt = [s \in Slots |-> NoSnapshot]
    /\ audio = createAudioSystem("suspended")
    /\ variant \in Variants
    /\ \E w \in createWorld(variant), rs \in RandScale, rp \in RandSpin :
          /\ trees = w.trees
          /\ wobs = [op |-> "createWorld", info |-> w.info]
          /\ anim = [i \in 1..NumTrees |-> NewAnim(variant, rs, rp)]

NextSpawn == FrameTrees \/ LoadAtTitle

SpecSpawn == InitSpawn /\ [][NextSpawn]_vars

\* where the camera stood when an earlier session saved
SavedAt == [x |-> -264, z |-> -107]

\* what localStorage holds at module load: nothing, or what an earlier session
\* saved to a slot
EarlierSaves ==
    { EmptyStorage,
      [EmptyStorage EXCEPT
          !.slots[2] = serializeState(SavedAt, [NewSession EXCEPT !.flashlightOn = FALSE,
                                                                  !.totalDistanceMeters = 37]),
          !.last = 2] }

\* the draws sampled for whole frames: any trial draw, and of the draws of a
\* trigger the two radii (5 and 15 units), the others at their least value
FrameSamples ==
    { d \in UNION {TriggerDraws(tr) : tr \in RandTrial} :
        /\ d.timer = 0 /\ d.cooldown = 0 /\ d.side = 0 /\ d.whisper = 0
        /\ \A o \in TriggerDraws(d.trial) : d.angle <= o.angle }

\* the forest whole frames start with: one outcome of createWorld per build
FrameWorldOf(v) == CHOOSE w \in createWorld(v) : TRUE

\* whole frames with any clock reading
AnimateFrame == Animate(ClockDeltas, FrameSamples)

\* module load of main.js, any outcome of createWorld
InitFrame ==
    /\ camera = [x |-> 0, z |-> 0]
    /\ gameStarted = FALSE
    /\ focus = 1000000
    /\ fobs = NoFocusObs
    /\ entities = createEntitySystem
    /\ eret = NoReturn
    /\ eobs = NoEntityObs
    /\ internalTime = 0
    /\ stages = << >>
    /\ raised = FALSE
    /\ cfg = createWorldCfg
    /\ grounds = createGrounds
    /\ whisper = NoWhisper
    /\ nan = {}
    /\ session = NewSession
    /\ storage \in EarlierSaves
    /\ loadRet = FALSE
    /\ savedAt = [s \in Slots |-> NoSnapshot]
    /\ audio = createAudioSystem("suspended")
    /\ variant \in Variants
    /\ \E rs \in RandScale, rp \in RandSpin :
          /\ trees = FrameWorldOf(variant).trees
          /\ wobs = [op |-> "createWorld", info |-> FrameWorldOf(variant).info]
          /\ anim = [i \in 1..NumTrees |-> NewAnim(variant, rs, rp)]

NextFrame == AnimateFrame \/ SlotNewClick \/ SlotContinueClick \/ StartKey

SpecFrame == InitFrame /\ [][NextFrame]_vars

\* slot contents that no saveToSlot wrote: a string JSON.parse rejects
\* ('{"camera":'), an object without camera ('{}'), and an object whose
\* camera has no numeric field ('{"camera":{}}')
MalformedData ==
    { [saved |-> TRUE, malformed |-> k] : k \in {"unparsable", "noCamera", "cameraNoNumbers"} }

\* module load of main.js in a browser whose localStorage holds such a
\* content in slot 1 or 2, as the last slot used or not
InitCorrupt ==
    /\ camera = [x |-> 0, z |-> 0]
    /\ gameStarted = FALSE
    /\ focus = 1000000
    /\ fobs = NoFocusObs
    /\ entities = createEntitySystem
    /\ eret = NoReturn
    /\ eobs = NoEntityObs
    /\ internalTime = 0
    /\ stages = << >>
    /\ raised = FALSE
    /\ cfg = createWorldCfg
    /\ grounds = createGrounds
    /\ whisper = NoWhisper
    /\ nan = {}
    /\ session = NewSession
    /\ \E slot \in {1, 2}, data \in MalformedData :
          \E last \in {0, slot} :
             storage = [EmptyStorage EXCEPT !.slots[slot] = data, !.last = last]
    /\ loadRet = FALSE
    /\ savedAt = [s \in Slots |-> NoSnapshot]
    /\ audio = createAudioSystem("suspended")
    /\ variant \in Variants
    /\ \E rs \in RandScale, rp \in RandSpin :
          /\ trees = FrameWorldOf(variant).trees
          /\ wobs = [op |-> "createWorld", info |-> FrameWorldOf(variant).info]
          /\ anim = [i \in 1..NumTrees |-> NewAnim(variant, rs, rp)]

SpecCorrupt == InitCorrupt /\ [][NextFrame]_vars

\* the draws sampled for frames followed from one appearance to the next: any
\* trial, active time, cooldown and radius, the other draws at one value
EncounterSamples ==
    { d \in UNION {TriggerDraws(tr) : tr \in RandTrial} :
        /\ d.side = 0 /\ d.whisper = 0
        /\ \A o \in TriggerDraws(d.trial) : d.angle <= o.angle }

\* what is known of the last appearance of the presence: was there one, the
\* dt accumulated by the frames since, and, in the frame of an appearance,
\* the dt accumulated since the one before (-1 otherwise)
NoAppearance == [stage |-> "entities", appeared |-> FALSE, elapsed |-> 0, gap |-> -1]

Appearance == IF stages = << >> THEN NoAppearance ELSE stages[1]

\* animate() on the title screen, the calls after updateWorld:
\* updateEntities(entities, camera, dt, focus), updateFocus(dt, threatLevel)
\* and updateWhisper(dt, whisper) with dt = min(delta, 0.05).  A dormant
\* presence is followed for MaxIdle ms after its cooldown ran out.
FrameEncounter ==
    /\ entities.active \/ entities.cooldown > -MaxIdle
    /\ \E delta \in ClockDeltas :
          LET dt  == FrameDt(delta)
              due == Eligible(entities, dt)
          IN  \E tr \in IF due THEN {x.trial : x \in EncounterSamples} ELSE {NoDraws.trial} :
              \E d \in IF due /\ TrialOk(tr, focus, dt)
                       THEN {x \in EncounterSamples : x.trial = tr}
                       ELSE {[NoDraws EXCEPT !.trial = tr]} :
                  LET r == updateEntities(entities, camera, dt, focus, d)
                  IN  /\ entities' = r.state
                      /\ eret' = r.ret
                      /\ eobs' = r.obs
                      /\ focus' = updateFocus(focus, dt, r.ret.threatLevel)
                      /\ fobs' = [op |-> "updateFocus", dt |-> dt,
                                  threat |-> r.ret.threatLevel, prev |-> focus]
                      /\ whisper' = updateWhisper(whisper, dt, r.ret.whisper)
                      /\ stages' = << [stage |-> "entities",
                                       appeared |-> (Appearance.appeared \/ r.obs.trialOk),
                                       elapsed |-> IF r.obs.trialOk THEN 0
                                                   ELSE Appearance.elapsed + dt,
                                       gap |-> IF r.obs.trialOk /\ Appearance.appeared
                                               THEN Appearance.elapsed + dt
                                               ELSE -1] >>
    /\ UNCHANGED <<variant, camera, gameStarted, trees, wobs, internalTime, anim, raised, cfg,
                   grounds, nan, session, storage, loadRet, savedAt, audio>>

\* module load of main.js
InitEncounter ==
    /\ camera = [x |-> 0, z |-> 0]
    /\ gameStarted = FALSE
    /\ focus = 1000000
    /\ fobs = NoFocusObs
    /\ entities = createEntitySystem
    /\ eret = NoReturn
    /\ eobs = NoEntityObs
    /\ internalTime = 0
    /\ stages = << >>
    /\ raised = FALSE
    /\ cfg = createWorldCfg
    /\ grounds = createGrounds
    /\ whisper = NoWhisper
    /\ nan = {}
    /\ session = NewSession
    /\ storage = EmptyStorage
    /\ loadRet = FALSE
    /\ savedAt = [s \in Slots |-> NoSnapshot]
    /\ audio = createAudioSystem("suspended")
    /\ variant \in Variants
    /\ \E rs \in RandScale, rp \in RandSpin :
          /\ trees = FrameWorldOf(variant).trees
          /\ wobs = [op |-> "createWorld", info |-> FrameWorldOf(variant).info]
          /\ anim = [i \in 1..NumTrees |-> NewAnim(variant, rs, rp)]

NextEncounter == FrameEncounter

SpecEncounter == InitEncounter /\ [][NextEncounter]_vars

\* values of clock.getDelta() a misbehaving clock reports besides NaN, in ms
BadDeltas == {-250}

\* animate() when clock.getDelta() returns NaN.  dt = Math.min(NaN, 0.05) is
\* NaN and so is everything dt is added to or multiplied with (0 * NaN
\* included); every comparison with NaN is false.  A quantity that became NaN
\* enters nan and keeps its last number in the state.
\*   controls.update: dx and dz are NaN, so camera.position.x and .z
\*   updateHeadBob at rest: bobOffset *= 0.88, no NaN
\*   frameDist is NaN, 'frameDist > 0' is false; autosaveTimer += dt
\*   updateWorld: internalTime; no tree is far ('NaN > maxDist^2' when the
\*     camera is NaN, the anchors' own test otherwise); age is NaN, 'age <
\*     growDuration' is false, so the trees get the neutral branch, and
\*     part_000 adds spinAdd * dt = 0 * NaN to rotation.y; the stars' yaw
\*   updateEntities: cooldown and timer; no trial ('cooldown <= 0' is false);
\*     an active presence stays unless the camera is within 1.2 of it
\*   updateFocus: Math.max(0, NaN) and Math.min(1, NaN) are NaN
\*   updateWhisper: whisperTimer; 'whisperTimer <= 0' is false
AnimateNaN ==
    /\ nan = {}
    /\ cfg = createWorldCfg
    /\ LET camNaN == gameStarted
           w      == IF camNaN
                     THEN [trees |-> trees, info |-> [i \in 1..NumTrees |-> NoInfo]]
                     ELSE CHOOSE x \in updateWorld(variant, trees, camera.x, camera.z) : TRUE
           d2     == EntityDist2(entities.pos, camera)
           hit    == entities.active /\ ~camNaN /\ Caught(d2)
           threat == IF entities.active /\ ~camNaN THEN threatLevel(d2) ELSE 0
       IN  /\ nan' = {"dt", "internalTime", "cooldown", "timer", "focus", "whisperTimer", "stars"}
                     \cup (IF gameStarted THEN {"camera"} ELSE {})
                     \cup (IF gameStarted /\ session.currentSlot # 0 THEN {"autosaveTimer"} ELSE {})
                     \cup (IF variant = "part_000" THEN {"treeYaw"} ELSE {})
                     \cup (IF entities.active /\ camNaN THEN {"threatLevel"} ELSE {})
           /\ trees' = w.trees
           /\ anim' = [i \in 1..NumTrees |->
                          [anim[i] EXCEPT !.scale = anim[i].scaleBase, !.rise = 0, !.dyaw = 0,
                                          !.offx = 0, !.offz = 0]]
           /\ wobs' = [op |-> "frame", info |-> w.info]
           /\ entities' = IF hit THEN hideEntity(entities) ELSE entities
           /\ eret' = [threatLevel |-> threat, whisper |-> ""]
           /\ eobs' = [op |-> "updateEntities", dt |-> 0,
                       wasActive |-> entities.active, prevCooldown |-> entities.cooldown,
                       cooldownDue |-> FALSE, trialOk |-> FALSE,
                       activeAtCheck |-> entities.active, timerAtCheck |-> entities.timer,
                       dist2 |-> d2, draws |-> 0]
           /\ fobs' = [op |-> "updateFocus", dt |-> 0, threat |-> threat, prev |-> focus]
           /\ session' = IF gameStarted
                         THEN [session EXCEPT !.rot = [x |-> session.look.pitch,
                                                       y |-> session.look.yaw, z |-> 0]]
                         ELSE session
           /\ stages' = << [stage |-> "clock", delta |-> 0, isNaN |-> TRUE,
                            time |-> internalTime] >>
                        \o (IF gameStarted
                            THEN << [stage |-> "controls"], [stage |-> "headBob"] >>
                            ELSE << >>)
                        \o << [stage |-> "world"], [stage |-> "entities"], [stage |-> "focus"],
                              [stage |-> "whisper"], [stage |-> "audio"] >>
           /\ raised' = FALSE
           /\ audio' = ensureStarted(audio)
    /\ UNCHANGED <<variant, camera, gameStarted, focus, internalTime, cfg, grounds, whisper,
                   storage, loadRet, savedAt>>

\* whole frames under a clock that may also report a negative elapsed time
AnimateBadClock == Animate(ClockDeltas \cup BadDeltas, FrameSamples)

\* module load of main.js with nothing saved before
InitBadClock ==
    /\ camera = [x |-> 0, z |-> 0]
    /\ gameStarted = FALSE
    /\ focus = 1000000
    /\ fobs = NoFocusObs
    /\ entities = createEntitySystem
    /\ eret = NoReturn
    /\ eobs = NoEntityObs
    /\ internalTime = 0
    /\ stages = << >>
    /\ raised = FALSE
    /\ cfg = createWorldCfg
    /\ grounds = createGrounds
    /\ whisper = NoWhisper
    /\ nan = {}
    /\ session = NewSession
    /\ storage = EmptyStorage
    /\ loadRet = FALSE
    /\ savedAt = [s \in Slots |-> NoSnapshot]
    /\ audio = createAudioSystem("suspended")
    /\ variant \in Variants
    /\ \E rs \in RandScale, rp \in RandSpin :
          /\ trees = FrameWorldOf(variant).trees
          /\ wobs = [op |-> "createWorld", info |-> FrameWorldOf(variant).info]
          /\ anim = [i \in 1..NumTrees |-> NewAnim(variant, rs, rp)]

NextBadClock == AnimateBadClock \/ AnimateNaN \/ StartKey

SpecBadClock == InitBadClock /\ [][NextBadClock]_vars

\* the 'f' key: the flashlight is toggled
KeyF ==
    /\ session' = [session EXCEPT !.flashlightOn = ~@]
    /\ wobs' = [wobs EXCEPT !.op = "key"]
    /\ UNCHANGED <<variant, camera, gameStarted, focus, trees, entities, eret, fobs, eobs,
                   internalTime, anim, stages, raised, cfg, grounds, whisper, nan, storage,
                   loadRet, savedAt, audio>>

\* lookSensitivity of controls.js, in 1e-5 rad per pixel (0.0022)
lookSensitivity == 220

\* maxPitch = Math.PI / 2.4, in 1e-5 rad
maxPitch == 130900

\* vertical mouse movements sampled, in pixels
MouseDy == {-600}

\* mousemove under pointer lock: pitch -= dy * lookSensitivity, kept within
\* -maxPitch..maxPitch (movementX is 0: yaw stays)
MouseMove ==
    /\ \E dy \in MouseDy :
          session' = [session EXCEPT
                         !.look.pitch = Max(-maxPitch, Min(maxPitch, @ - dy * lookSensitivity))]
    /\ wobs' = [wobs EXCEPT !.op = "mouse"]
    /\ UNCHANGED <<variant, camera, gameStarted, focus, trees, entities, eret, fobs, eobs,
                   internalTime, anim, stages, raised, cfg, grounds, whisper, nan, storage,
                   loadRet, savedAt, audio>>

\* saveToSlot(currentSlot) called on its own, as the autosave of a started
\* game calls it when its timer is due; one save is followed
CallSaveToSlot ==
    /\ gameStarted
    /\ session.currentSlot # 0
    /\ \A s \in Slots : ~savedAt[s].saved
    /\ storage' = saveToSlot(storage, session.currentSlot, camera, session)
    /\ savedAt' = [savedAt EXCEPT ![session.currentSlot] = Snapshot(camera, session, focus)]
    /\ wobs' = [wobs EXCEPT !.op = "save"]
    /\ UNCHANGED <<variant, camera, gameStarted, focus, trees, entities, eret, fobs, eobs,
                   internalTime, anim, stages, raised, cfg, grounds, whisper, nan, session,
                   loadRet, audio>>

\* the page is loaded again after a save and before any load that finds one:
\* main.js's module state starts over, localStorage stays
PageReload ==
    /\ gameStarted
    /\ ~loadRet
    /\ \E s \in Slots : savedAt[s].saved
    /\ camera' = [x |-> 0, z |-> 0]
    /\ gameStarted' = FALSE
    /\ focus' = 1000000
    /\ fobs' = NoFocusObs
    /\ entities' = createEntitySystem
    /\ eret' = NoReturn
    /\ eobs' = NoEntityObs
    /\ internalTime' = 0
    /\ stages' = << >>
    /\ raised' = FALSE
    /\ grounds' = createGrounds
    /\ whisper' = NoWhisper
    /\ nan' = {}
    /\ session' = NewSession
    /\ loadRet' = FALSE
    /\ trees' = FrameWorldOf(variant).trees
    /\ wobs' = [op |-> "createWorld", info |-> FrameWorldOf(variant).info]
    /\ \E rs \in RandScale, rp \in RandSpin :
          anim' = [i \in 1..NumTrees |-> NewAnim(variant, rs, rp)]
    /\ audio' = createAudioSystem(audio.state)
    /\ UNCHANGED <<variant, cfg, storage, savedAt>>

\* the frames between saving and loading: a clock reading of 0.05 s, and a
\* presence that appears 5 units away as soon as it may
SaveSamples == {d \in FrameSamples : d.trial = 0 /\ d.radius = 0}

AnimatePlay == Animate({maxDt}, SaveSamples)

\* module load of main.js in a browser that never saved
InitSave ==
    /\ camera = [x |-> 0, z |-> 0]
    /\ gameStarted = FALSE
    /\ focus = 1000000
    /\ fobs = NoFocusObs
    /\ entities = createEntitySystem
    /\ eret = NoReturn
    /\ eobs = NoEntityObs
    /\ internalTime = 0
    /\ stages = << >>
    /\ raised = FALSE
    /\ cfg = createWorldCfg
    /\ grounds = createGrounds
    /\ whisper = NoWhisper
    /\ nan = {}
    /\ session = NewSession
    /\ storage = EmptyStorage
    /\ loadRet = FALSE
    /\ savedAt = [s \in Slots |-> NoSnapshot]
    /\ audio = createAudioSystem("suspended")
    /\ variant \in Variants
    /\ \E rs \in RandScale, rp \in RandSpin :
          /\ trees = FrameWorldOf(variant).trees
          /\ wobs = [op |-> "createWorld", info |-> FrameWorldOf(variant).info]
          /\ anim = [i \in 1..NumTrees |-> NewAnim(variant, rs, rp)]

\* frames and input are followed up to the first load that finds a save
PlayFrame == ~loadRet /\ AnimatePlay

PlayKeyF == ~loadRet /\ KeyF

PlayMouseMove == ~loadRet /\ MouseMove

NextSave ==
    \/ PlayFrame
    \/ PlayKeyF
    \/ PlayMouseMove
    \/ StartKey
    \/ SlotContinueClick
    \/ CallSaveToSlot
    \/ PageReload

SpecSave == InitSave /\ [][NextSave]_vars

\* what localStorage holds at module load when an earlier session saved
\* after the player had looked up against maxPitch, or 0.66 rad to the left
LookedSaves ==
    { [EmptyStorage EXCEPT
          !.slots[2] = serializeState(SavedAt, [NewSession EXCEPT !.rot = r,
                                                                  !.totalDistanceMeters = 37]),
          !.last = 2] :
        r \in { [x |-> maxPitch, y |-> 0, z |-> 0], [x |-> 0, y |-> 66000, z |-> 0] } }

\* module load of main.js in such a browser
InitResume ==
    /\ camera = [x |-> 0, z |-> 0]
    /\ gameStarted = FALSE
    /\ focus = 1000000
    /\ fobs = NoFocusObs
    /\ entities = createEntitySystem
    /\ eret = NoReturn
    /\ eobs = NoEntityObs
    /\ internalTime = 0
    /\ stages = << >>
    /\ raised = FALSE
    /\ cfg = createWorldCfg
    /\ grounds = createGrounds
    /\ whisper = NoWhisper
    /\ nan = {}
    /\ session = NewSession
    /\ storage \in LookedSaves
    /\ loadRet = FALSE
    /\ savedAt = [s \in Slots |-> NoSnapshot]
    /\ audio = createAudioSystem("suspended")
    /\ variant \in Variants
    /\ \E rs \in RandScale, rp \in RandSpin :
          /\ trees = FrameWorldOf(variant).trees
          /\ wobs = [op |-> "createWorld", info |-> FrameWorldOf(variant).info]
          /\ anim = [i \in 1..NumTrees |-> NewAnim(variant, rs, rp)]

SpecResume == InitResume /\ [][NextFrame]_vars

\* Space or Enter at any time: the keydown listener stays in place after the
\* game has started
StartKeyDown ==
    \E key \in {" ", "Enter", "Return", "Escape"} :
        /\ key = " " \/ key = "Enter" \/ key = "Return"
        /\ Handled(startGame(MainState), "start")

\* what is known of the autosave: the dt accumulated by the frames of the
\* started game since it started or last saved (elapsed), what that sum was
\* when the last frame tested its timer (reached), and whether that frame saved
NoAutosave == [stage |-> "autosave", elapsed |-> 0, reached |-> 0, saved |-> FALSE]

Autosave == IF stages = << >> THEN NoAutosave ELSE stages[1]

\* animate() with no key held, the part before updateWorld: in a started
\* game controls.update sets the camera's rotation, then the distance walked
\* and the autosave; nothing of it on the title screen
FrameAutosave ==
    \E delta \in ClockDeltas :
        LET dt  == FrameDt(delta)
            s1  == [session EXCEPT !.rot = [x |-> session.look.pitch,
                                           y |-> session.look.yaw, z |-> 0]]
            ta  == IF gameStarted
                   THEN trackAndAutosave(storage, camera, s1, dt)
                   ELSE [session |-> session, saves |-> FALSE, storage |-> storage]
            acc == IF gameStarted THEN Autosave.elapsed + dt ELSE 0
        IN  /\ session' = ta.session
            /\ storage' = ta.storage
            /\ savedAt' = IF ta.saves
                          THEN [savedAt EXCEPT ![ta.session.currentSlot] =
                                                   Snapshot(camera, ta.session, focus)]
                          ELSE savedAt
            /\ stages' = << [stage |-> "autosave", elapsed |-> IF ta.saves THEN 0 ELSE acc,
                             reached |-> acc, saved |-> ta.saves] >>
            /\ wobs' = [wobs EXCEPT !.op = "frame"]
            /\ UNCHANGED <<variant, camera, gameStarted, focus, trees, entities, eret, fobs,
                           eobs, internalTime, anim, raised, cfg, grounds, whisper, nan,
                           loadRet, audio>>

NextAutosave == FrameAutosave \/ StartKeyDown \/ SlotNewClick \/ SlotContinueClick

\* module load as for whole frames
SpecAutosave == InitFrame /\ [][NextAutosave]_vars

\* a pointerdown, on the title overlay's background or on the canvas, in the
\* top-right corner of a narrow window or not.  The overlay's listener runs
\* startGame; then the window's listeners in the order they were added:
\* ensureStarted of audio.js, which is removed after its first call, and the
\* flashlight toggle of main.js
PointerDown ==
    \E target \in {"overlay", "canvas"}, corner \in BOOLEAN :
        /\ target = "overlay" => ~gameStarted
        /\ LET m  == IF target = "overlay" THEN startGame(MainState) ELSE MainState
               a1 == [audio EXCEPT !.pressed = TRUE,
                                   !.suspendedAtPress = IF audio.pressed THEN @
                                                        ELSE audio.state # "running"]
           IN  /\ camera' = m.camera
               /\ focus' = m.focus
               /\ gameStarted' = m.gameStarted
               /\ session' = [m.session EXCEPT !.flashlightOn = IF corner THEN ~@ ELSE @]
               /\ storage' = m.storage
               /\ nan' = m.nan
               /\ loadRet' = m.loadRet
               /\ audio' = IF audio.listening
                           THEN [ensureStarted(a1) EXCEPT !.listening = FALSE]
                           ELSE a1
        /\ wobs' = [wobs EXCEPT !.op = "pointerdown"]
        /\ fobs' = [NoFocusObs EXCEPT !.op = "pointerdown", !.prev = focus]
        /\ UNCHANGED <<variant, trees, entities, eret, eobs, internalTime, anim,
                       stages, raised, cfg, grounds, whisper, savedAt>>

\* module load of main.js in a browser that never saved; the new
\* AudioContext is suspended (no user gesture yet) or running
InitAudio ==
    /\ camera = [x |-> 0, z |-> 0]
    /\ gameStarted = FALSE
    /\ focus = 1000000
    /\ fobs = NoFocusObs
    /\ entities = createEntitySystem
    /\ eret = NoReturn
    /\ eobs = NoEntityObs
    /\ internalTime = 0
    /\ stages = << >>
    /\ raised = FALSE
    /\ cfg = createWorldCfg
    /\ grounds = createGrounds
    /\ whisper = NoWhisper
    /\ nan = {}
    /\ session = NewSession
    /\ storage = EmptyStorage
    /\ loadRet = FALSE
    /\ savedAt = [s \in Slots |-> NoSnapshot]
    /\ \E state \in {"suspended", "running"} : audio = createAudioSystem(state)
    /\ variant \in Variants
    /\ \E rs \in RandScale, rp \in RandSpin :
          /\ trees = FrameWorldOf(variant).trees
          /\ wobs = [op |-> "createWorld", info |-> FrameWorldOf(variant).info]
          /\ anim = [i \in 1..NumTrees |-> NewAnim(variant, rs, rp)]

NextAudio == AnimateFrame \/ PointerDown

SpecAudio == InitAudio /\ [][NextAudio]_vars

\* values of clock.getDelta() sampled for the whisper display, in ms
WhisperDeltas == {0, 20, 50, 100}

\* how long (ms of accumulated dt) a whisper is followed after it was emitted
MaxWhisperClock == 4300

\* what is known of the whisper in flight: was one emitted, which, and the dt
\* accumulated by the calls since
NoEmission == [stage |-> "whisper", dt |-> 0, text |-> "", emitted |-> FALSE, line |-> "",
               elapsed |-> 0]

Emission == IF stages = << >> THEN NoEmission ELSE stages[1]

\* updateWhisper(dt, text) called on its own, frame after frame, with the dt of
\* animate(): without text before the one whisper followed, then with the
\* text updateEntities returns when a presence appears, then without text
CallUpdateWhisper ==
    \E delta \in WhisperDeltas, text \in {"", whisperLines[1], whisperLines[6]} :
        LET dt == FrameDt(delta)
        IN  /\ text # "" => ~Emission.emitted
            /\ ~Emission.emitted => whisper.timer > -MaxIdle
            /\ Emission.emitted => Emission.elapsed < MaxWhisperClock
            /\ whisper' = updateWhisper(whisper, dt, text)
            /\ stages' = << [stage |-> "whisper", dt |-> dt, text |-> text,
                             emitted |-> (Emission.emitted \/ text # ""),
                             line |-> IF text # "" THEN text ELSE Emission.line,
                             elapsed |-> IF text # "" \/ ~Emission.emitted
                                         THEN 0 ELSE Emission.elapsed + dt] >>
            /\ UNCHANGED <<variant, camera, gameStarted, focus, trees, entities, eret, wobs,
                           fobs, eobs, internalTime, anim, raised, cfg, grounds, nan, session,
                           storage, loadRet, savedAt, audio>>

\* module load of main.js
InitWhisper ==
    /\ camera = [x |-> 0, z |-> 0]
    /\ gameStarted = FALSE
    /\ focus = 1000000
    /\ fobs = NoFocusObs
    /\ entities = createEntitySystem
    /\ eret = NoReturn
    /\ eobs = NoEntityObs
    /\ internalTime = 0
    /\ stages = << >>
    /\ raised = FALSE
    /\ cfg = createWorldCfg
    /\ grounds = createGrounds
    /\ whisper = NoWhisper
    /\ nan = {}
    /\ session = NewSession
    /\ storage = EmptyStorage
    /\ loadRet = FALSE
    /\ savedAt = [s \in Slots |-> NoSnapshot]
    /\ audio = createAudioSystem("suspended")
    /\ variant = "world_js"
    /\ trees = SomeWorld.trees
    /\ anim = [i \in 1..NumTrees |-> NewAnim("world_js", 500, 500)]
    /\ wobs = [op |-> "createWorld", info |-> SomeWorld.info]

NextWhisper == CallUpdateWhisper

SpecWhisper == InitWhisper /\ [][NextWhisper]_vars

\* walkSpeed of controls.update, in dm per second
walkSpeed == 16

\* update(dt) of controls.js, the movement it applies, for the key state k
\* (w, a, s, d, shift, each 0 or 1; the arrow keys set the same flags) and the
\* yaw of the closure, sin and cos of which are read off DirTable:
\*   forward = w - s, right = d - a, len = hypot(right, forward),
\*   mx = right / len, my = forward / len when len > 0.01, else 0,
\*   moveStep = (shift ? sprintSpeed : walkSpeed) * dt,
\*   dx = (mx * cos - my * sin) * moveStep, dz = (mx * sin - my * cos) * moveStep.
\* len is 0, 1 or sqrt(2), so the record keeps len2 = len * len and the
\* displacement times 5 * len: nx = 5 * len * dx, nz = 5 * len * dz, in 1e-4 m
controlsDisplacement(k, yaw, dt) ==
    LET forward == k.w - k.s
        right   == k.d - k.a
        len2    == right * right + forward * forward
        dir     == DirTable[CHOOSE j \in 1..Len(DirTable) :
                              LET d == (yaw - DirTable[j].a) % 628319
                              IN  d <= 120 \/ d >= 628319 - 120]
        step    == (IF k.shift = 1 THEN sprintSpeed ELSE walkSpeed) * dt
    IN  [forward |-> forward, right |-> right, len2 |-> len2, step |-> step,
         nx |-> IF len2 > 0 THEN (right * dir.c - forward * dir.s) * step ELSE 0,
         nz |-> IF len2 > 0 THEN (right * dir.s - forward * dir.c) * step ELSE 0,
         moveIntensity |-> IF len2 = 0 THEN 0
                           ELSE ((IF k.shift = 1 THEN 1000 ELSE 600)
                                   * (IF len2 = 1 THEN 1000 ELSE 1414)) \div 1000,
         isSprinting |-> (k.shift = 1 /\ len2 > 0)]

\* mousemove under pointer lock with movementY = 0, for the horizontal
\* movements (pixels) that turn the player from yaw 0 to within 0.0012 rad of
\* a direction of DirTable: yaw -= dx * lookSensitivity
MouseMoveX ==
    /\ session.look.yaw = 0
    /\ \E dx \in {-1428, -1136, -1007, -714, -422, -293, 293, 422, 714, 1007, 1136} :
          session' = [session EXCEPT
                         !.look.yaw = @ - dx * lookSensitivity,
                         !.look.pitch = Max(-maxPitch, Min(maxPitch, @))]
    /\ wobs' = [wobs EXCEPT !.op = "mouse"]
    /\ UNCHANGED <<variant, camera, gameStarted, focus, trees, entities, eret, fobs, eobs,
                   internalTime, anim, stages, raised, cfg, grounds, whisper, nan, storage,
                   loadRet, savedAt, audio>>

\* controls.update(dt) called on its own from the start position, for every
\* state of the keys: the camera moves by (dx, dz), rounded towards zero to
\* the decimetre (1 / sqrt(2) taken as 0.7071), and camera.rotation is set
\* from pitch and yaw
CallControlsUpdate ==
    /\ camera = [x |-> 0, z |-> 0]
    /\ \E k \in [w : 0..1, a : 0..1, s : 0..1, d : 0..1, shift : 0..1], delta \in {16, 50} :
          LET dt == FrameDt(delta)
              m  == controlsDisplacement(k, session.look.yaw, dt)
              dm == IF m.len2 = 2 THEN 7071 ELSE 10000
          IN  /\ camera' = [x |-> camera.x + TruncDiv(m.nx * dm, 50000000),
                            z |-> camera.z + TruncDiv(m.nz * dm, 50000000)]
              /\ session' = [session EXCEPT !.rot = [x |-> session.look.pitch,
                                                     y |-> session.look.yaw, z |-> 0]]
              /\ stages' = << [stage |-> "controls", dt |-> dt, keys |-> k, move |-> m] >>
    /\ wobs' = [wobs EXCEPT !.op = "update"]
    /\ UNCHANGED <<variant, gameStarted, focus, trees, entities, eret, fobs, eobs,
                   internalTime, anim, raised, cfg, grounds, whisper, nan, storage,
                   loadRet, savedAt, audio>>

\* module load of main.js
InitControls ==
    /\ camera = [x |-> 0, z |-> 0]
    /\ gameStarted = FALSE
    /\ focus = 1000000
    /\ fobs = NoFocusObs
    /\ entities = createEntitySystem
    /\ eret = NoReturn
    /\ eobs = NoEntityObs
    /\ internalTime = 0
    /\ stages = << >>
    /\ raised = FALSE
    /\ cfg = createWorldCfg
    /\ grounds = createGrounds
    /\ whisper = NoWhisper
    /\ nan = {}
    /\ session = NewSession
    /\ storage = EmptyStorage
    /\ loadRet = FALSE
    /\ savedAt = [s \in Slots |-> NoSnapshot]
    /\ audio = createAudioSystem("suspended")
    /\ variant = "world_js"
    /\ trees = SomeWorld.trees
    /\ anim = [i \in 1..NumTrees |-> NewAnim("world_js", 500, 500)]
    /\ wobs = [op |-> "createWorld", info |-> SomeWorld.info]

NextControls == MouseMoveX \/ CallControlsUpdate

SpecControls == InitControls /\ [][NextControls]_vars

\* world objects updateWorld may be handed: the one createWorld returns, one
\* with an empty tree pool, one without a tree pool, one with gridSize 0 and
\* one with a ground tile less than gridSize * gridSize
WorldShapes ==
    { [cfg |-> createWorldCfg, grounds |-> createGrounds],
      [cfg |-> [createWorldCfg EXCEPT !.pool = "empty"], grounds |-> createGrounds],
      [cfg |-> [createWorldCfg EXCEPT !.pool = "missing"], grounds |-> createGrounds],
      [cfg |-> [createWorldCfg EXCEPT !.gridSize = 0], grounds |-> createGrounds],
      [cfg |-> createWorldCfg, grounds |-> SubSeq(createGrounds, 1, gridSize * gridSize - 1)] }

\* module load of main.js with a world object of any of these shapes
InitDegenerate ==
    /\ camera = [x |-> 0, z |-> 0]
    /\ gameStarted = FALSE
    /\ focus = 1000000
    /\ fobs = NoFocusObs
    /\ entities = createEntitySystem
    /\ eret = NoReturn
    /\ eobs = NoEntityObs
    /\ internalTime = 0
    /\ stages = << >>
    /\ raised = FALSE
    /\ whisper = NoWhisper
    /\ nan = {}
    /\ session = NewSession
    /\ storage = EmptyStorage
    /\ loadRet = FALSE
    /\ savedAt = [s \in Slots |-> NoSnapshot]
    /\ audio = createAudioSystem("suspended")
    /\ variant \in Variants
    /\ \E shape \in WorldShapes, rs \in RandScale, rp \in RandSpin :
          /\ cfg = shape.cfg
          /\ grounds = shape.grounds
          /\ trees = IF shape.cfg.pool = "trees" THEN FrameWorldOf(variant).trees ELSE << >>
          /\ anim = IF shape.cfg.pool = "trees"
                    THEN [i \in 1..NumTrees |-> NewAnim(variant, rs, rp)]
                    ELSE << >>
          /\ wobs = [op |-> "createWorld", info |-> << >>]

NextDegenerate == AnimateFrame \/ StartKey

SpecDegenerate == InitDegenerate /\ [][NextDegenerate]_vars

\* updateFocus called from any value of focus
FocusInputs == {0, 3000, 500000, 997000, 1000000}

InitFocusFn ==
    /\ camera = [x |-> 0, z |-> 0]
    /\ gameStarted = FALSE
    /\ focus \in FocusInputs
    /\ fobs = NoFocusObs
    /\ entities = createEntitySystem
    /\ eret = NoReturn
    /\ eobs = NoEntityObs
    /\ internalTime = 0
    /\ stages = << >>
    /\ raised = FALSE
    /\ cfg = createWorldCfg
    /\ grounds = createGrounds
    /\ whisper = NoWhisper
    /\ nan = {}
    /\ session = NewSession
    /\ storage = EmptyStorage
    /\ loadRet = FALSE
    /\ savedAt = [s \in Slots |-> NoSnapshot]
    /\ audio = createAudioSystem("suspended")
    /\ variant = "world_js"
    /\ trees = SomeWorld.trees
    /\ anim = [i \in 1..NumTrees |-> NewAnim("world_js", 500, 500)]
    /\ wobs = [op |-> "createWorld", info |-> SomeWorld.info]

NextFocusFn == CallUpdateFocus

SpecFocusFn == InitFocusFn /\ [][NextFocusFn]_vars

---------------------------------------------------------------------------
(* Properties of the focus loop *)

AfterUpdateFocus == fobs.op = "updateFocus"

\* C1: after any sequence of frames (any threat in [0,1], any clamped dt)
\* interleaved with new-game resets and slot loads, 0 <= focus <= 1.
\* Checked under SpecFocus.
C1_FocusBounds == focus >= 0 /\ focus <= 1000000

\* a frame whose drain was cut short by the floor at 0, after a reset or a load
\* has taken place
C1_Witness ==
    /\ AfterUpdateFocus
    /\ gameStarted
    /\ focus = 0
    /\ fobs.prev > 0
    /\ fobs.prev < ((3000 + 30 * fobs.threat) * fobs.dt * 60) \div 1000

\* C10 as stated: with focus = 0, threat = 1 and dt = 0.1 one update strictly
\* decreases focus; with threat = 0 one update strictly increases focus unless
\* it is clamped at 1.  Checked under SpecFocusFn.
C10_Original ==
    AfterUpdateFocus /\ fobs.dt = 100 =>
        /\ (fobs.threat = 1000 /\ fobs.prev = 0) => focus < fobs.prev
        /\ fobs.threat = 0 => (focus > fobs.prev \/ focus = 1000000)

\* C10 as amended: with threat = 1 and dt = 0.1 one update strictly decreases
\* focus when focus was above 0 and leaves it at 0 when it was 0; with
\* threat = 0 one update strictly increases focus when it was below 1 and
\* leaves it at 1 when it was 1.  Checked under SpecFocusFn.
C10_Amended ==
    AfterUpdateFocus /\ fobs.dt = 100 =>
        /\ fobs.threat = 1000 =>
              IF fobs.prev > 0 THEN focus < fobs.prev /\ focus >= 0 ELSE focus = 0
        /\ fobs.threat = 0 =>
              IF fobs.prev < 1000000 THEN focus > fobs.prev /\ focus <= 1000000
              ELSE focus = 1000000

\* the scenario of the claim: one update from focus = 0 under threat = 1
C10_Witness ==
    /\ AfterUpdateFocus
    /\ fobs.dt = 100
    /\ fobs.threat = 1000
    /\ fobs.prev = 0
    /\ focus = 0

---------------------------------------------------------------------------
(* Properties of the presence, checked under SpecEntity *)

AfterUpdateEntities == eobs.op = "updateEntities"

\* C6: there is one presence, and at the end of every updateEntities call its
\* group is visible if and only if state.active.
C6_VisibleIffActive ==
    /\ DOMAIN entities = {"active", "timer", "cooldown", "lastWhisper", "visible", "pos"}
    /\ entities.visible <=> entities.active

\* a call that hid a presence that had been raised by an earlier call
C6_Witness ==
    /\ AfterUpdateEntities
    /\ eobs.wasActive
    /\ ~entities.active
    /\ ~entities.visible

\* C7: across a tick with dt >= 0 the cooldown does not increase, except in a
\* tick where the trigger fires, which sets it to a value in [10, 25).
C7_CooldownMonotone ==
    [][ \/ entities'.cooldown <= entities.cooldown
        \/ /\ eobs'.trialOk
           /\ entities'.cooldown >= 10000
           /\ entities'.cooldown < 25000 ]_vars

\* a trigger tick that raised the cooldown from zero or below to the top of
\* its range
C7_Witness ==
    /\ AfterUpdateEntities
    /\ eobs.trialOk
    /\ eobs.prevCooldown <= 0
    /\ entities.cooldown > eobs.prevCooldown
    /\ entities.cooldown = 24985

\* C8: in a tick where the presence is dormant, the cooldown is <= 0 and the
\* trial succeeds, at the end of the tick the presence is active and visible,
\* the whisper returned is one of the six lines of the pool, the timer is in
\* [3, 6) and the cooldown in [10, 25).
C8_Trigger ==
    (AfterUpdateEntities /\ ~eobs.wasActive /\ eobs.cooldownDue /\ eobs.trialOk) =>
        /\ entities.active
        /\ entities.visible
        /\ eret.whisper # ""
        /\ \E k \in 1..6 : eret.whisper = whisperLines[k]
        /\ Len(whisperLines) = 6
        /\ entities.timer >= 3000 /\ entities.timer < 6000
        /\ entities.cooldown >= 10000 /\ entities.cooldown < 25000

\* a trigger tick with the shortest timer and the last line of the pool
C8_Witness ==
    /\ AfterUpdateEntities
    /\ ~eobs.wasActive
    /\ eobs.cooldownDue
    /\ eobs.trialOk
    /\ entities.active
    /\ entities.timer = 3000
    /\ eret.whisper = whisperLines[6]

\* squared distances the threat is compared at, in dm^2
DistProbe == {0, 4, 143, 144, 2500, 10000, 25600, 40000}

\* C9: in a tick where the presence is active and the player is closer than
\* 1.2, the presence is dormant at the end of the tick and the threat returned
\* is at least the threat at distance 1.2; the threat returned is
\* non-increasing in distance.
C9_Catch ==
    (AfterUpdateEntities /\ eobs.activeAtCheck) =>
        /\ Caught(eobs.dist2) =>
              /\ ~entities.active
              /\ eret.threatLevel >= threatLevel(144)
              /\ eret.threatLevel >= 925
        /\ \A p \in DistProbe :
              /\ p <= eobs.dist2 => threatLevel(p) >= eret.threatLevel
              /\ p >= eobs.dist2 => threatLevel(p) <= eret.threatLevel

\* a presence caught while its timer was still running
C9_Witness ==
    /\ AfterUpdateEntities
    /\ eobs.wasActive
    /\ eobs.activeAtCheck
    /\ eobs.timerAtCheck > 0
    /\ Caught(eobs.dist2)
    /\ ~entities.active

---------------------------------------------------------------------------
(* Properties of the whole frame, checked under SpecFrame *)

\* the calls of the last frame that take dt
DtStages == {"controls", "headBob", "world", "entities", "focus", "whisper"}

StageIndex(name) == {i \in 1..Len(stages) : stages[i].stage = name}

\* C13: in every frame, controls.update, updateWorld, updateEntities,
\* updateFocus and updateWhisper are handed one and the same dt, and that dt
\* is at most 0.05 s whatever the clock reported
C13_SameDt ==
    \A i, j \in 1..Len(stages) :
        (stages[i].stage \in DtStages /\ stages[j].stage \in DtStages)
            => /\ stages[i].dt = stages[j].dt
               /\ stages[i].dt <= maxDt

\* a frame of a started game whose clock reported 0.1 s: all five updates ran
\* with dt = 0.05
C13_Witness ==
    /\ stages # << >>
    /\ stages[1].delta = 100
    /\ \A n \in {"controls", "world", "entities", "focus", "whisper"} :
           \E i \in StageIndex(n) : stages[i].dt = 50

\* C16: while gameStarted is unset no frame changes focus, the presence's
\* phase, timer or cooldown, world.internalTime or a tree's anchor
C16_Claim ==
    [][(~gameStarted /\ ~gameStarted')
          => /\ focus' = focus
             /\ entities'.active = entities.active
             /\ entities'.timer = entities.timer
             /\ entities'.cooldown = entities.cooldown
             /\ internalTime' = internalTime
             /\ trees' = trees]_vars

\* on the title screen a presence is active and has drained focus
C16_Witness ==
    /\ ~gameStarted
    /\ stages # << >>
    /\ entities.active
    /\ focus < 1000000
    /\ internalTime > 0

\* the nine tile positions are nine distinct cells, those of the 3 x 3
\* lattice of spacing tileSize centred at floor(camera / tileSize) * tileSize
GroundLattice ==
    LET bx == (camera.x \div tileSize) * tileSize
        bz == (camera.z \div tileSize) * tileSize
    IN  /\ Len(grounds) = 9
        /\ Cardinality({grounds[k] : k \in 1..Len(grounds)}) = 9
        /\ {grounds[k] : k \in 1..Len(grounds)}
              = {[x |-> bx + gx * tileSize, z |-> bz + gz * tileSize] :
                    gx \in -1..1, gz \in -1..1}
        /\ grounds[5] = [x |-> bx, z |-> bz]

\* C28 as stated: after every updateWorld call the tiles fill that lattice
\* and the camera is within the footprint of the centre tile, the square of
\* side tileSize centred on the tile's position
C28_Original ==
    wobs.op = "frame" =>
        /\ GroundLattice
        /\ 2 * (camera.x - grounds[5].x) <= tileSize
        /\ 2 * (camera.x - grounds[5].x) >= -tileSize
        /\ 2 * (camera.z - grounds[5].z) <= tileSize
        /\ 2 * (camera.z - grounds[5].z) >= -tileSize

\* C28 amended: after every updateWorld call the tiles fill that lattice and
\* the camera is, on each axis, at or past the centre tile's position by less
\* than tileSize: inside the block of nine tiles, on the centre tile or on
\* the next one
C28_Amended ==
    wobs.op = "frame" =>
        /\ GroundLattice
        /\ camera.x - grounds[5].x >= 0 /\ camera.x - grounds[5].x < tileSize
        /\ camera.z - grounds[5].z >= 0 /\ camera.z - grounds[5].z < tileSize

\* a frame that followed the camera to a cell of negative coordinates, the
\* camera more than half a tile past the centre tile's position
C28_Witness ==
    /\ wobs.op = "frame"
    /\ camera.x < 0
    /\ grounds[5].x = -tileSize
    /\ 2 * (camera.x - grounds[5].x) > tileSize

\* C29: a frame adds to totalDistanceMeters exactly the planar distance the
\* camera moved in that frame, so the total never decreases in a frame; a
\* new-game reset sets it to 0 and a slot load to the slot's total, neither
\* adding the distance of the jump; lastPos is the camera's position after
\* every frame, reset and load.
C29_Distance ==
    [][ /\ session'.lastPos = camera'
        /\ IF wobs'.op = "frame"
           THEN /\ session'.totalDistanceMeters
                     = session.totalDistanceMeters
                         + CeilSqrt(Sq(camera'.x - camera.x) + Sq(camera'.z - camera.z))
                /\ session'.totalDistanceMeters >= session.totalDistanceMeters
           ELSE \/ /\ session'.totalDistanceMeters = 0
                   /\ camera' = [x |-> 0, z |-> 0]
                \/ \E slot \in Slots :
                      /\ storage.slots[slot].saved
                      /\ session'.totalDistanceMeters
                            = storage.slots[slot].totalDistanceMeters
                      /\ camera'.x = storage.slots[slot].camera.x
                      /\ camera'.z = storage.slots[slot].camera.z ]_vars

\* a slot was loaded far from the origin and the first sprinting frame after
\* it added its one step to the slot's total
C29_Witness ==
    /\ wobs.op = "frame"
    /\ gameStarted
    /\ camera.x = SavedAt.x - 1
    /\ session.lastPos = camera
    /\ session.totalDistanceMeters = 38

Once(name) == Cardinality(StageIndex(name)) = 1

Before(a, b) == \A i \in StageIndex(a), j \in StageIndex(b) : i < j

StageOf(name) == stages[CHOOSE i \in StageIndex(name) : TRUE]

\* C17 as stated: in every frame updateWorld, updateEntities, updateFocus,
\* updateHeadBob, updateWhisper and audio.update run exactly once each, world
\* before encounter before focus before the three presentation stages
C17_Original ==
    wobs.op = "frame"
        => /\ \A n \in {"world", "entities", "focus", "headBob", "whisper", "audio"} : Once(n)
           /\ Before("world", "entities")
           /\ Before("entities", "focus")
           /\ \A n \in {"headBob", "whisper", "audio"} : Before("focus", n)

\* C17 amended: in every frame updateWorld, updateEntities, updateFocus,
\* updateWhisper and audio.update run exactly once each, in this order;
\* updateHeadBob runs once, after controls.update and before updateWorld, in
\* the frames of a started game and not at all before; the whisper shown and
\* the threat and focus given to the audio are those computed in the same
\* frame, and the head bob gets the movement controls.update returned in it
C17_Amended ==
    wobs.op = "frame"
        => /\ \A n \in {"world", "entities", "focus", "whisper", "audio"} : Once(n)
           /\ Before("world", "entities")
           /\ Before("entities", "focus")
           /\ Before("focus", "whisper")
           /\ Before("whisper", "audio")
           /\ Cardinality(StageIndex("headBob")) = (IF gameStarted THEN 1 ELSE 0)
           /\ Cardinality(StageIndex("controls")) = (IF gameStarted THEN 1 ELSE 0)
           /\ Before("controls", "headBob")
           /\ Before("headBob", "world")
           /\ gameStarted => StageOf("headBob").moveInfo = StageOf("controls").moveInfo
           /\ StageOf("focus").threat = eret.threatLevel
           /\ StageOf("whisper").text = eret.whisper
           /\ StageOf("audio").threat = eret.threatLevel
           /\ StageOf("audio").focus = focus

\* a frame of a started game in which the player moved, a presence appeared
\* and drained focus
C17_Witness ==
    /\ wobs.op = "frame"
    /\ gameStarted
    /\ StageIndex("headBob") # {}
    /\ StageOf("headBob").moveInfo.moveIntensity > 0
    /\ StageOf("whisper").text # ""
    /\ StageOf("audio").threat > 100
    /\ StageOf("audio").focus < fobs.prev

\* C14: a frame whose clock reading is negative or NaN behaves as a frame
\* with dt = 0: nothing becomes NaN, focus stays within [0, 1], the world
\* clock and the cooldown of the presence are where the frame found them
C14_Claim ==
    (stages # << >> /\ (stages[1].isNaN \/ stages[1].delta < 0))
        => /\ nan = {}
           /\ focus >= 0 /\ focus <= 1000000
           /\ internalTime = stages[1].time
           /\ entities.cooldown = eobs.prevCooldown

\* a frame whose clock reading was NaN left focus NaN
C14_Witness ==
    /\ stages # << >>
    /\ stages[1].isNaN
    /\ "focus" \in nan

---------------------------------------------------------------------------
(* Properties of saving and loading, checked under SpecSave *)

\* a slot's continue button has just loaded a slot that saveToSlot wrote
LoadedOwnSave == wobs.op = "load" /\ savedAt[session.currentSlot].saved

\* C18: loading a slot restores focus to the value it had when the slot was saved
C18_Claim == LoadedOwnSave => focus = savedAt[session.currentSlot].focus

\* a slot saved while focus was drained has been loaded, and focus is 1
C18_Witness ==
    /\ LoadedOwnSave
    /\ savedAt[session.currentSlot].focus < 1000000
    /\ focus = 1000000

C21_TriggerGuard ==
    [][ /\ (~entities.active /\ entities'.active)
            => /\ entities.cooldown - eobs'.dt <= 0
               /\ eobs'.draws = 8
        /\ entities.active => eobs'.draws = 0 ]_vars

\* a tick that raised the presence from a cooldown that ran out, after an
\* earlier tick that an active presence spent without a draw
C21_Witness ==
    /\ AfterUpdateEntities
    /\ ~eobs.wasActive
    /\ eobs.prevCooldown - eobs.dt <= 0
    /\ eobs.draws = 8
    /\ entities.active
    /\ eobs.dt = 50

\* C22: a tick the presence enters active leaves it dormant if and only if
\* its timer, after the decrement, is <= 0 or its distance to the camera is
\* strictly below 1.2; otherwise it stays active, and its position is not
\* changed by the tick.
C22_ActiveTick ==
    [][ entities.active
          => /\ ~entities'.active
                  <=> (entities.timer - eobs'.dt <= 0 \/ eobs'.dist2 < 144)
             /\ entities'.active => entities'.pos = entities.pos ]_vars

\* a tick that an active presence, away from the camera and with time left,
\* went through and stayed active
C22_Witness ==
    /\ AfterUpdateEntities
    /\ eobs.wasActive
    /\ eobs.timerAtCheck > 0
    /\ eobs.dist2 >= 144
    /\ eobs.dt = 50
    /\ entities.active

\* C23: every active phase ends within 6 s of accumulated dt plus one tick:
\* a presence that is active at the end of a tick has a timer in (0, 6), and
\* every tick it stays active through lowers that timer by exactly dt.
C23_ActiveEnds ==
    [][ /\ entities'.active => (entities'.timer > 0 /\ entities'.timer < 6000)
        /\ (entities.active /\ entities'.active)
              => entities'.timer = entities.timer - eobs'.dt ]_vars

\* a presence raised with the longest timer, hidden by the tick in which the
\* timer ran out, far from the camera
C23_Witness ==
    /\ AfterUpdateEntities
    /\ eobs.wasActive
    /\ eobs.timerAtCheck <= 0
    /\ eobs.timerAtCheck > -maxDt
    /\ eobs.dist2 >= 144
    /\ ~entities.active

\* C24: the threatLevel every updateEntities call returns lies in [0, 1], and
\* it is 0 when the presence is not active where the threat is computed.
C24_ThreatRange ==
    /\ eret.threatLevel >= 0
    /\ eret.threatLevel <= 1000
    /\ (AfterUpdateEntities /\ ~eobs.activeAtCheck) => eret.threatLevel = 0

\* a call with an active presence farther than 16 from the camera: the clamp
\* holds the threat at 0
C24_Witness ==
    /\ AfterUpdateEntities
    /\ eobs.activeAtCheck
    /\ eobs.dist2 > 25600
    /\ eret.threatLevel = 0

---------------------------------------------------------------------------
(* Properties of controls.update, checked under SpecControls *)

\* C30: for every state of the keys and every yaw the planar displacement of
\* one controls.update has magnitude at most speed * dt, and exactly
\* speed * dt when the keys give a direction (squared, and times 25 len^2:
\* nx^2 + nz^2 = 25 * len2 * step^2)
C30_Claim ==
    (stages # << >> /\ stages[1].stage = "controls" /\ wobs.op = "update") =>
        LET m == stages[1].move
        IN  /\ m.len2 = 0 => (m.nx = 0 /\ m.nz = 0)
            /\ m.len2 > 0 => m.nx * m.nx + m.nz * m.nz = 25 * m.len2 * m.step * m.step

\* w and d held while sprinting, the player turned to a yaw of about -0.927:
\* the step is longer than sprintSpeed * dt
C30_Witness ==
    /\ stages # << >>
    /\ stages[1].stage = "controls"
    /\ wobs.op = "update"
    /\ stages[1].keys = [w |-> 1, a |-> 0, s |-> 0, d |-> 1, shift |-> 1]
    /\ stages[1].dt = 50
    /\ session.look.yaw = -92840
    /\ stages[1].move.nx * stages[1].move.nx + stages[1].move.nz * stages[1].move.nz
          > 25 * stages[1].move.len2 * stages[1].move.step * stages[1].move.step

---------------------------------------------------------------------------
(* Properties of the whisper display, checked under SpecWhisper *)

\* C20 as stated: a whisper after which no other follows is displayed while
\* less than 2.2 s of dt have accumulated, and once 2.2 s have accumulated its
\* text is cleared
C20_Original ==
    Emission.emitted
        => /\ Emission.elapsed < whisperDuration
                  => (whisper.text = Emission.line /\ whisper.opacity = 1)
           /\ Emission.elapsed >= whisperDuration => whisper.text = ""

\* C20 amended: the whisper is displayed (its text set, opacity 1) while less
\* than 2.2 s of dt have accumulated; once 2.2 s have accumulated it is hidden
\* (opacity 0) with its text still in place, and the text is cleared only
\* once more than 2 further seconds have accumulated (4.2 s in all)
C20_Amended ==
    Emission.emitted
        => /\ Emission.elapsed < whisperDuration
                  => (whisper.text = Emission.line /\ whisper.opacity = 1)
           /\ Emission.elapsed >= whisperDuration => whisper.opacity = 0
           /\ Emission.elapsed <= whisperDuration + whisperClearDelay
                  => whisper.text = Emission.line
           /\ Emission.elapsed > whisperDuration + whisperClearDelay => whisper.text = ""

\* 2.2 s after a whisper it is hidden and its text is still there
C20_Witness ==
    /\ Emission.emitted
    /\ Emission.elapsed = whisperDuration
    /\ whisper.opacity = 0
    /\ whisper.text = "you have never left"

---------------------------------------------------------------------------
(* Properties of updateWorld on a degenerate world, checked under SpecDegenerate *)

Degenerate ==
    \/ cfg.pool # "trees"
    \/ cfg.gridSize = 0
    \/ Len(grounds) < cfg.gridSize * cfg.gridSize

\* C15: with an empty or missing tree pool, gridSize 0 or fewer ground tiles
\* than gridSize^2, no frame ends in an exception and updateEntities and
\* updateFocus run in every frame
C15_Claim ==
    (stages # << >> /\ Degenerate)
        => /\ ~raised
           /\ StageIndex("entities") # {}
           /\ StageIndex("focus") # {}

\* a frame on a world with a tree pool and eight ground tiles for a 3 x 3
\* grid ended in an exception before updateEntities
C15_Witness ==
    /\ stages # << >>
    /\ cfg.pool = "trees"
    /\ Len(grounds) < cfg.gridSize * cfg.gridSize
    /\ raised
    /\ StageIndex("entities") = {}

---------------------------------------------------------------------------
(* Properties of the spawn animation, checked under SpecSpawn *)

\* the tree's spawn age in the last call was at least the spawn duration
Settled(i) == Age(internalTime, anim[i]) >= growDuration(variant)

\* C11: for a tree whose spawn age is at least the spawn duration, every tick
\* yields the neutral offsets: its scale is its base scale, its rise offset is
\* 0, and the tick leaves its yaw and its anchor unchanged.
C11_SettledNeutral ==
    [][ wobs'.op = "frame" =>
          \A i \in 1..NumTrees :
              Age(internalTime', anim'[i]) >= growDuration(variant) =>
                  /\ anim'[i].scale = anim'[i].scaleBase
                  /\ anim'[i].rise = 0
                  /\ anim'[i].dyaw = 0
                  /\ anim'[i].offx = 0 /\ anim'[i].offz = 0
                  /\ trees'[i] = trees[i] ]_vars

\* a tree that was reassigned, has finished its animation and has been ticked
\* again since
C11_Witness ==
    /\ wobs.op = "frame"
    /\ \E i \in 1..NumTrees :
          /\ anim[i].spawnTime > 0
          /\ Age(internalTime, anim[i]) > growDuration(variant)
          /\ anim[i].scale = anim[i].scaleBase
          /\ anim[i].dyaw = 0

\* C26: a tick that reassigns a tree sets the tree's spawn start time to the
\* tick's clock, so that its spawn age is 0 in that tick; the animation then
\* runs while the age is below the spawn duration and the tree is settled
\* from there on; the spawn start time changes in no other tick, and a tree
\* that was never reassigned is settled in every tick.
C26_SpawnClock ==
    [][ \A i \in 1..NumTrees :
          IF wobs'.op = "frame"
          THEN /\ wobs'.info[i].re
                    => /\ anim'[i].spawnTime = internalTime'
                       /\ Age(internalTime', anim'[i]) = 0
               /\ ~wobs'.info[i].re => anim'[i].spawnTime = anim[i].spawnTime
               /\ Age(internalTime', anim'[i]) < growDuration(variant)
                    => ~(/\ anim'[i].scale = anim'[i].scaleBase /\ anim'[i].rise = 0
                         /\ anim'[i].dyaw = 0)
               /\ Age(internalTime', anim'[i]) >= growDuration(variant)
                    => (/\ anim'[i].scale = anim'[i].scaleBase /\ anim'[i].rise = 0
                        /\ anim'[i].dyaw = 0)
               /\ anim'[i].spawnTime < 0
                    => Age(internalTime', anim'[i]) >= growDuration(variant)
          ELSE anim'[i].spawnTime = anim[i].spawnTime ]_vars

\* the tick that reassigned a tree, with the other tree, never reassigned,
\* still carrying createWorld's spawn time
C26_Witness ==
    /\ wobs.op = "frame"
    /\ \E i, j \in 1..NumTrees :
          /\ wobs.info[i].re
          /\ anim[i].spawnTime = internalTime
          /\ internalTime = maxDt
          /\ ~wobs.info[j].re
          /\ anim[j].spawnTime < 0
          /\ anim[j].scale = anim[j].scaleBase

\* C27: once the spawn animation of a reassigned tree has completed, the
\* tree's yaw is the orientation it was given at reassignment: the twist
\* added during the animation has returned to zero.
C27_Claim ==
    wobs.op = "frame" =>
        \A i \in 1..NumTrees :
            (anim[i].spawnTime >= 0 /\ Age(internalTime, anim[i]) >= growDuration(variant))
                => anim[i].yaw = 0

\* a reassigned tree of src/world.js whose animation has completed and whose
\* yaw is more than a full turn away from the orientation it was given
C27_Witness ==
    /\ wobs.op = "frame"
    /\ variant = "world_js"
    /\ \E i \in 1..NumTrees :
          /\ anim[i].spawnTime >= 0
          /\ Age(internalTime, anim[i]) >= growDuration(variant)
          /\ anim[i].dyaw = 0
          /\ anim[i].yaw > 6283

\* C12: in every build the spawn animation at progress u = 0 yields a scale
\* within epsilon (0.02) of the minimum, and at u = 1 a scale within epsilon
\* of the tree's base scale.
C12_Claim ==
    wobs.op = "frame" =>
        \A i \in 1..NumTrees :
            /\ Age(internalTime, anim[i]) = 0 =>
                   /\ anim[i].scale <= minScale(variant, anim[i].scaleBase) + 20
                   /\ anim[i].scale >= minScale(variant, anim[i].scaleBase) - 20
            /\ Age(internalTime, anim[i]) = growDuration(variant) =>
                   /\ anim[i].scale <= anim[i].scaleBase + 20
                   /\ anim[i].scale >= anim[i].scaleBase - 20

\* a tree at spawn age 0 that the call left larger than its base scale
C12_Witness ==
    /\ wobs.op = "frame"
    /\ \E i \in 1..NumTrees :
          /\ wobs.info[i].re
          /\ Age(internalTime, anim[i]) = 0
          /\ anim[i].scale > anim[i].scaleBase

---------------------------------------------------------------------------
(* Properties of the tree recycler, checked under SpecWorld *)

TreeDist2(i) == Dist2(trees[i].x, trees[i].z, camera.x, camera.z)

AfterUpdateWorld == wobs.op = "frame"

InRing(i) ==
    /\ TreeDist2(i) >= minRadius * minRadius
    /\ TreeDist2(i) <= maxRadius(variant) * maxRadius(variant)

\* C2: at the end of every updateWorld call every tree's anchor is within
\* maxDist of the camera, whatever path or jump took the camera there.
C2_RecycleRadius ==
    AfterUpdateWorld => \A i \in 1..NumTrees : TreeDist2(i) <= maxDist * maxDist

\* a call that found a tree beyond the horizon and brought it back, and left
\* another tree standing
C2_Witness ==
    /\ AfterUpdateWorld
    /\ \E i \in 1..NumTrees : wobs.info[i].far /\ TreeDist2(i) <= maxDist * maxDist
    /\ \E i \in 1..NumTrees : ~wobs.info[i].re

\* C3 as stated: every tree's anchor is within [minRadius, maxRadius] of the
\* player at all times, the frame in which it is reassigned excepted: after
\* updateWorld every tree that the call did not reassign is in the ring.
C3_Original ==
    AfterUpdateWorld => \A i \in 1..NumTrees : ~wobs.info[i].re => InRing(i)

\* C3 as amended: after updateWorld a tree reassigned in the call is within
\* maxRadius of the player (and, in src/world.js, at least minRadius away);
\* a tree that was not reassigned is only known to be within maxDist.
C3_Amended ==
    AfterUpdateWorld =>
        \A i \in 1..NumTrees :
            /\ wobs.info[i].re =>
                  /\ TreeDist2(i) <= maxRadius(variant) * maxRadius(variant)
                  /\ variant = "world_js" => TreeDist2(i) >= minRadius * minRadius
            /\ ~wobs.info[i].re => TreeDist2(i) <= maxDist * maxDist

\* a tree left standing between maxRadius and the horizon
C3_Witness ==
    /\ AfterUpdateWorld
    /\ \E i \in 1..NumTrees :
          /\ ~wobs.info[i].re
          /\ TreeDist2(i) > maxRadius(variant) * maxRadius(variant)
          /\ TreeDist2(i) <= maxDist * maxDist

\* C4: a tree found beyond maxDist is reassigned in the same call to an anchor
\* within [minRadius, maxRadius] of the player, whatever the draws and the
\* spacing checks give.
C4_Claim ==
    AfterUpdateWorld =>
        \A i \in 1..NumTrees : wobs.info[i].far => wobs.info[i].re /\ InRing(i)

\* a tree found beyond the horizon and put down on the player's own position
C4_Witness ==
    /\ AfterUpdateWorld
    /\ \E i \in 1..NumTrees : wobs.info[i].far /\ wobs.info[i].re /\ TreeDist2(i) = 0

\* C5: randomizeTreePosition samples at most the attempt bound and assigns the
\* first sample that passes the spacing check, or the last sample if none does.
C5_Claim ==
    \A i \in 1..NumTrees :
        wobs.info[i].re =>
            /\ wobs.info[i].bounded
            /\ wobs.info[i].anyOk => wobs.info[i].isFirstOk
            /\ ~wobs.info[i].anyOk => wobs.info[i].isLast

\* a call in which every sample failed the spacing check and the anchor
\* assigned is not the last sample
C5_Witness ==
    \E i \in 1..NumTrees :
        /\ wobs.info[i].re
        /\ wobs.info[i].bounded
        /\ ~wobs.info[i].anyOk
        /\ ~wobs.info[i].isLast

\* C25: an updateWorld call reassigns a tree if and only if the squared
\* planar distance from the tree's anchor, as the call finds it, to the
\* camera strictly exceeds maxDist^2, and it leaves the anchor of every other
\* tree as it was.
C25_ReassignIff ==
    [][ wobs'.op = "frame"
          => \A i \in 1..NumTrees :
                LET far == Dist2(trees[i].x, trees[i].z, camera'.x, camera'.z)
                               > maxDist * maxDist
                IN  /\ wobs'.info[i].re <=> far
                    /\ ~far => trees'[i] = trees[i] ]_vars

\* a call after a jump of the camera that reassigned one tree, more than
\* maxDist away, and left the other, within maxDist, where it was
C25_Witness ==
    /\ AfterUpdateWorld
    /\ camera # [x |-> 0, z |-> 0]
    /\ \E i, j \in 1..NumTrees :
          /\ wobs.info[i].re
          /\ wobs.info[i].far
          /\ ~wobs.info[j].re
          /\ TreeDist2(j) <= maxDist * maxDist
          /\ TreeDist2(j) > minRadius * minRadius

\* C31: loading a slot whose content is unparsable, or parses to an object
\* without numeric camera fields, leaves the camera's position and
\* orientation, the flashlight flag and totalDistanceMeters as they were, and
\* finite.  The slot loaded is the one that became currentSlot.
C31_Claim ==
    [][(/\ wobs'.op \in {"load", "start"}
        /\ session'.currentSlot # 0
        /\ storage.slots[session'.currentSlot] \in MalformedData)
       => /\ camera' = camera
          /\ session'.rot = session.rot
          /\ session'.flashlightOn = session.flashlightOn
          /\ session'.totalDistanceMeters = session.totalDistanceMeters
          /\ nan' = nan]_vars

\* a slot holding '{"camera":{}}' was loaded from the title screen
C31_Witness ==
    /\ wobs.op \in {"load", "start"}
    /\ gameStarted
    /\ session.currentSlot # 0
    /\ storage.slots[session.currentSlot] \in MalformedData
    /\ storage.slots[session.currentSlot].malformed = "cameraNoNumbers"
    /\ loadRet

---------------------------------------------------------------------------
(* Properties of the encounter cycle, checked under SpecEncounter *)

\* C32: in every frame in which updateEntities draws a trigger trial (the
\* presence dormant and its cooldown run out), the focus it is handed is 1, so
\* the trigger chance is its base value 0.02
C32_FullFocusAtTrial ==
    (eobs.op = "updateEntities" /\ eobs.draws > 0)
        => (fobs.prev = 1000000 /\ chance(fobs.prev) = 2000)

\* a trial is drawn after an appearance during which focus was drained to 0
C32_Witness ==
    /\ eobs.op = "updateEntities"
    /\ eobs.draws > 0
    /\ Appearance.appeared
    /\ ~eobs.trialOk
    /\ Appearance.elapsed >= 10000

\* C33: two consecutive appearances (dormant to active) are at least 10 s of
\* accumulated dt apart, and the whisper of the first has run out and has
\* been cleared before the second replaces it
C33_AppearancesApart ==
    [][(~entities.active /\ entities'.active /\ Appearance.appeared)
       => /\ Appearance.elapsed + eobs'.dt >= 10000
          /\ stages'[1].gap >= 10000
          /\ whisper.timer < -whisperClearDelay
          /\ whisper.text = ""
          /\ whisper'.text # ""]_vars

\* a second appearance happened
C33_Witness ==
    /\ entities.active
    /\ Appearance.gap >= 10000
    /\ Appearance.elapsed = 0
    /\ whisper.text # ""

---------------------------------------------------------------------------
(* Properties of resuming a save, checked under SpecResume *)

\* C34: the first gameplay frame after a slot was loaded and the game was
\* started, no look input given in between, keeps the loaded camera
\* orientation, and the loaded position but for that frame's movement (at
\* most sprintSpeed * dt along x with the keys followed)
C34_Claim ==
    [][(/\ gameStarted /\ loadRet
        /\ wobs.op \in {"load", "start"}
        /\ wobs'.op = "frame")
       => /\ session'.rot = session.rot
          /\ camera'.z = camera.z
          /\ camera.x - camera'.x \in 0..((sprintSpeed * maxDt) \div 1000)]_vars

\* the first gameplay frame after the load of a save whose orientation is not
\* the one controls.js holds
C34_Witness ==
    /\ gameStarted /\ loadRet
    /\ wobs.op = "frame"
    /\ Len(stages) > 0 /\ stages[1].time = 0
    /\ storage.slots[session.currentSlot].camera.rotX # session.look.pitch
        \/ storage.slots[session.currentSlot].camera.rotY # session.look.yaw
    /\ session.rot = [x |-> session.look.pitch, y |-> session.look.yaw, z |-> 0]

---------------------------------------------------------------------------
(* Properties of the autosave, checked under SpecAutosave *)

\* C35: once started the game stays started and a later startGame changes
\* nothing; in a started game currentSlot is 1, 2 or 3; a frame saves to
\* currentSlot exactly when the game is started and the dt accumulated since
\* the start or the last autosave has reached 30 s, and it then resets
\* autosaveTimer to 0; nothing is saved before the game is started
C35_Claim ==
    [][/\ gameStarted => gameStarted'
       /\ (gameStarted /\ wobs'.op = "start")
             => UNCHANGED <<camera, focus, gameStarted, session, storage, nan>>
       /\ gameStarted' => session'.currentSlot \in Slots
       /\ wobs'.op = "frame"
             => /\ Autosave'.saved <=> (gameStarted /\ Autosave'.reached >= autosavePeriod)
                /\ Autosave'.saved
                      => /\ session'.autosaveTimer = 0
                         /\ storage'.last = session.currentSlot
                         /\ storage'.slots[session.currentSlot]
                               = serializeState(camera', session')
                /\ ~Autosave'.saved => storage' = storage
       /\ ~gameStarted' => storage'.slots = storage.slots]_vars

\* a second autosave has happened, Space pressed in between
C35_Witness ==
    /\ gameStarted
    /\ wobs.op = "frame"
    /\ Autosave.saved
    /\ Autosave.reached = autosavePeriod
    /\ savedAt[session.currentSlot].saved
    /\ storage.slots[session.currentSlot] = serializeState(camera, session)

---------------------------------------------------------------------------
(* Properties of the audio system, checked under SpecAudio *)

\* C36: when the audio context is not running at the first pointerdown,
\* ctx.resume() is requested in that pointerdown or after it, however the
\* frames and the pointerdown interleave; and ctx.resume() is requested at
\* most once
C36_Claim ==
    /\ (audio.pressed /\ audio.suspendedAtPress) => audio.resumedSincePress
    /\ audio.resumes <= 1

\* the first pointerdown found the context suspended, a frame having run
\* audio.update before it
C36_Witness ==
    /\ audio.pressed
    /\ audio.suspendedAtPress
    /\ ~audio.listening
    /\ audio.started
    /\ audio.resumes = 1
    /\ wobs.op = "pointerdown"

====
